---- MODULE Spec2Model ----
(***************************************************************************)
(* Model of the attendance service of backend/app.py together with the     *)
(* face matcher of backend/ai-service/face_recognition.py.                 *)
(*                                                                         *)
(* Handlers are coroutines on one event loop: a handler runs without       *)
(* interruption between two awaits.  Every handler that awaits            *)
(* (file.read()) is split at that await: a Start step runs the code before *)
(* the await, a Resume step runs everything after it.                      *)
(*                                                                         *)
(* Embeddings are integer vectors.  A unit vector has length UnitLen, so a *)
(* similarity (dot product of two unit vectors) is an integer in           *)
(* -SimScale..SimScale and 1.0 is SimScale.                                *)
(***************************************************************************)
EXTENDS Integers, Sequences, FiniteSets, TLC

VARIABLES
    students_db,            \* app.py:60   id -> name of the student record
    attendance_db,          \* app.py:61   the attendance log (a list)
    last_attendance_times,  \* app.py:64   id -> time of the last gate write
    known_faces,            \* face_recognition.py:44  insertion-ordered dict
    face_names,             \* face_recognition.py:45  id -> name
    clock,                  \* datetime.now()
    pc,                     \* per request: the await it is suspended at
    upload_id,              \* per request: student_id path parameter of an upload
    response,               \* the response of the request that completed last
    match_in,               \* arguments of the last direct matcher call
    match_out,              \* its return value
    database,               \* services/database.py:14  the MongoDB database
    frame,                  \* per request: the locals a handler keeps over an await
    outbox                  \* services/email.py:151  the messages SMTP accepted

vars == <<students_db, attendance_db, last_attendance_times, known_faces,
          face_names, clock, pc, upload_id, response, match_in, match_out, outbox,
          database, frame>>

----------------------------------------------------------------------------
(* Bounds of the model *)

MaxStudents == 2
MaxLog == 2
MaxTime == 301
MaxReq == 2
MaxFaces == 2
MaxPhotos == 3
MaxUsers == 2

(* Program constants *)

Cooldown == 300
MinPhotos == 3
UnitLen == 5
None == 0
FaceDim == 128
FaceScale == 10

SimScale == UnitLen * UnitLen
DefaultThreshold == (6 * SimScale) \div 10

Ids == 1..MaxStudents
Names == {"Alice", "Bob"}
NoName == "None"
Reqs == 1..MaxReq
Times == {t \in 0..MaxTime : t % Cooldown \in {0, 1}}

----------------------------------------------------------------------------
(* Vectors *)

NaNVec == <<>>
IsNaN(v) == Len(v) = 0

RECURSIVE DotFrom(_, _, _)
DotFrom(a, b, i) ==
    IF i > Len(a) THEN 0 ELSE a[i] * b[i] + DotFrom(a, b, i + 1)

Dot(a, b) == DotFrom(a, b, 1)

Isqrt(n) == CHOOSE r \in 0..n : r * r <= n /\ n < (r + 1) * (r + 1)

Norm(v) == Isqrt(Dot(v, v))

(* v / np.linalg.norm(v); a zero norm gives a vector of NaN *)
Normalize(v) ==
    IF IsNaN(v) THEN NaNVec
    ELSE LET n == Norm(v) IN
         IF n = 0 THEN NaNVec
         ELSE [i \in DOMAIN v |-> (v[i] * UnitLen) \div n]

----------------------------------------------------------------------------
(* The embedding store: known_faces is a Python dict, iterated in insertion *)
(* order; it is a sequence of entries [id, emb] with distinct ids.          *)

StoreIds(kf) == {kf[i].id : i \in DOMAIN kf}

StoreHas(kf, id) == id \in StoreIds(kf)

StoreIndex(kf, id) == CHOOSE i \in DOMAIN kf : kf[i].id = id

(* mutant of StoreSet: the entry is added at the end, whatever the store holds *)
StoreSetAppends(kf, id, emb) == Append(kf, [id |-> id, emb |-> emb])

(* known_faces[student_id] = emb: an existing key keeps its position *)
StoreSet(kf, id, emb) ==
    IF StoreHas(kf, id)
    THEN [kf EXCEPT ![StoreIndex(kf, id)] = [id |-> id, emb |-> emb]]
    ELSE Append(kf, [id |-> id, emb |-> emb])

(* mutant of StorePop: the entry is left in the store *)
StorePopKeeps(kf, id) == kf

(* known_faces.pop(student_id, None) *)
StorePop(kf, id) == SelectSeq(kf, LAMBDA e : e.id # id)

(* dict.__setitem__, dict.pop(key, None) and dict.get(key) on a function *)
DictSet(d, k, v) == [x \in DOMAIN d \cup {k} |-> IF x = k THEN v ELSE d[x]]

DictPop(d, k) == [x \in DOMAIN d \ {k} |-> d[x]]

NameGet(fn, id) == IF id \in DOMAIN fn THEN fn[id] ELSE NoName

----------------------------------------------------------------------------
(* The matcher of FaceRecognitionService.recognize_face *)

(* similarity > best_similarity, where a NaN similarity compares false *)
Better(emb, known, best) ==
    /\ ~IsNaN(emb)
    /\ ~IsNaN(known)
    /\ Dot(emb, known) > best

RECURSIVE ScanFrom(_, _, _, _)
ScanFrom(kf, emb, i, acc) ==
    IF i > Len(kf) THEN acc
    ELSE ScanFrom(kf, emb, i + 1,
                  IF Better(emb, kf[i].emb, acc.sim)
                  THEN [id |-> kf[i].id, sim |-> Dot(emb, kf[i].emb)]
                  ELSE acc)

Scan(kf, emb) == ScanFrom(kf, emb, 1, [id |-> None, sim |-> 0])

(* mutant of Decide: the comparison with the threshold is turned round *)
DecideInverted(best, fn, threshold) ==
    IF best.sim <= threshold
    THEN [id |-> best.id, name |-> NameGet(fn, best.id), conf |-> best.sim]
    ELSE [id |-> None, name |-> NoName, conf |-> best.sim]

(* the final comparison with the threshold and the returned tuple *)
Decide(best, fn, threshold) ==
    IF best.sim >= threshold
    THEN [id |-> best.id, name |-> NameGet(fn, best.id), conf |-> best.sim]
    ELSE [id |-> None, name |-> NoName, conf |-> best.sim]

NoMatch == [id |-> None, name |-> NoName, conf |-> 0]

(* before the first direct call: as after a call on an image with no face *)
NoCall == [faces |-> <<>>, threshold |-> DefaultThreshold]

(* mutant of ServiceRecognize: of several faces the first is matched *)
ServiceRecognizeFirst(kf, fn, faces, threshold) ==
    IF Len(faces) = 0 THEN NoMatch
    ELSE IF ~faces[1].ok THEN NoMatch
    ELSE Decide(Scan(kf, Normalize(faces[1].emb)), fn, threshold)

(* faces: the detected faces of the image, each [bbox, ok, emb]; ok = FALSE *)
(* when extract_embedding returns None                                      *)
ServiceRecognize(kf, fn, faces, threshold) ==
    IF Len(faces) # 1 THEN NoMatch
    ELSE IF ~faces[1].ok THEN NoMatch
    ELSE Decide(Scan(kf, Normalize(faces[1].emb)), fn, threshold)

----------------------------------------------------------------------------
(* Registration: FaceRecognitionService.register_face *)

(* mutant of GoodPhoto: an image with several faces contributes its first *)
GoodPhotoCrowd(p) == p.faces >= 1 /\ p.ok

(* photos: the uploaded images, each [faces, ok, emb]: the number of       *)
(* detected faces, whether extract_embedding succeeds on the first of      *)
(* them, and the embedding it returns                                      *)
GoodPhoto(p) == p.faces = 1 /\ p.ok

Embeddings(photos) == SelectSeq(photos, GoodPhoto)

RECURSIVE VecSumFrom(_, _)
VecSumFrom(embs, i) ==
    IF i = Len(embs) THEN embs[i].emb
    ELSE [k \in DOMAIN embs[i].emb |->
             embs[i].emb[k] + VecSumFrom(embs, i + 1)[k]]

(* np.mean followed by the L2 normalisation: the factor 1/n of the mean    *)
(* cancels in the normalisation, so the sum is normalised                  *)
Aggregate(embs) == Normalize(VecSumFrom(embs, 1))

(* mutant of EnoughPhotos: two good photos are enough *)
EnoughPhotosTwo(embs) == Len(embs) >= MinPhotos - 1

EnoughPhotos(embs) == Len(embs) >= MinPhotos

RegisterOk(photos) == EnoughPhotos(Embeddings(photos))

(* mutant of RegisterFaces: any candidate is stored *)
RegisterFacesUnchecked(kf, id, photos) ==
    IF Len(Embeddings(photos)) > 0
    THEN StoreSet(kf, id, Aggregate(Embeddings(photos)))
    ELSE kf

RegisterFaces(kf, id, photos) ==
    IF RegisterOk(photos)
    THEN StoreSet(kf, id, Aggregate(Embeddings(photos)))
    ELSE kf

RegisterNames(fn, id, name, photos) ==
    IF RegisterOk(photos) THEN DictSet(fn, id, name) ELSE fn

----------------------------------------------------------------------------
(* The attendance gate of recognize_face and recognize_faces_multi *)

(* mutants of InCooldown: <= for <, and a window one second short *)
InCooldownInclusive(last, id, now) ==
    /\ id \in DOMAIN last
    /\ now - last[id] <= Cooldown

InCooldownShort(last, id, now) ==
    /\ id \in DOMAIN last
    /\ now - last[id] < Cooldown - 1

(* last_time and (current_time - last_time).total_seconds() < 300 *)
InCooldown(last, id, now) ==
    /\ id \in DOMAIN last
    /\ now - last[id] < Cooldown

AttendanceRecord(id, now, conf, loc) ==
    [student_id |-> id, timestamp |-> now, confidence |-> conf, location |-> loc]

RecognitionResult(id, name, conf, rec, bbox) ==
    [student_id |-> id, student_name |-> name, confidence |-> conf,
     recognized |-> rec, bbox |-> bbox]

(* what a handler returns: the status code, the student_id its message    *)
(* names, and for the recognition endpoints the per-face results          *)
Response(op, id, status, results, total, count) ==
    [op |-> op, id |-> id, status |-> status, results |-> results,
     total_faces |-> total, recognized_count |-> count]

Plain(op, id, status) == Response(op, id, status, <<>>, 0, 0)

NoResponse == Plain("none", None, None)

(* the users collection before any user is stored, and an idle request *)
NoUsers == [users |-> <<>>]

NoFrame == [user_id |-> None, face_embeddings |-> <<>>]

----------------------------------------------------------------------------
(* Inputs *)

(* raw embeddings the encoder returns for a query face *)
RawEmbeddings == {<<10, 0>>, <<4, -3>>, <<3, 4>>, <<-3, 4>>}

FaceInputs ==
    [ok : {TRUE}, emb : RawEmbeddings] \cup [ok : {FALSE}, emb : {NaNVec}]

(* detect_faces: the faces of an image in detection order, bbox = position *)
Detected(fs) ==
    [i \in 1..Len(fs) |-> [bbox |-> i, ok |-> fs[i].ok, emb |-> fs[i].emb]]

(* faces that match an enrolled student: <<10, 0>> and <<4, -3>> match    *)
(* the embedding <<5, 0>> with similarity 1.0 and 0.8, <<3, 4>> matches     *)
(* <<3, 4>> with similarity 1.0                                            *)
GateFaces == [ok : {TRUE}, emb : {<<10, 0>>, <<4, -3>>, <<3, 4>>}]

(* an uploaded image: process_image_from_bytes decodes it or raises; a     *)
(* decoded image holds up to n faces drawn from the set faces              *)
Images(faces, n) ==
    {[decodable |-> TRUE, faces |-> fs] :
        fs \in UNION {[1..k -> faces] : k \in 0..n}}
    \cup {[decodable |-> FALSE, faces |-> <<>>]}

(* photos of one person: every embedding lies on the direction dir *)
RegDirs == {<<5, 0>>, <<3, 4>>}

Scaled(k, v) == [i \in DOMAIN v |-> k * v[i]]

PhotoKinds(dir) ==
    << [faces |-> 1, ok |-> TRUE, emb |-> dir],
       [faces |-> 1, ok |-> TRUE, emb |-> Scaled(-2, dir)],
       [faces |-> 0, ok |-> FALSE, emb |-> NaNVec],
       [faces |-> 2, ok |-> TRUE, emb |-> dir],
       [faces |-> 1, ok |-> FALSE, emb |-> NaNVec] >>

(* uploads are listed up to the order of the photos, which the mean ignores *)
KindSeqs(n) ==
    {ks \in UNION {[1..k -> 1..5] : k \in 1..n} :
        \A i \in 1..(Len(ks) - 1) : ks[i] <= ks[i + 1]}

(* an upload: every file decodes, or process_image_from_bytes raises *)
Uploads(dirs, kinds, n) ==
    {[decodable |-> TRUE, photos |-> [i \in 1..Len(ks) |-> PhotoKinds(dir)[ks[i]]]] :
        ks \in {x \in KindSeqs(n) : \A i \in DOMAIN x : x[i] \in kinds}, dir \in dirs}
    \cup {[decodable |-> FALSE, photos |-> <<>>]}

----------------------------------------------------------------------------
Init ==
    /\ students_db = <<>>
    /\ attendance_db = <<>>
    /\ last_attendance_times = <<>>
    /\ known_faces = <<>>
    /\ face_names = <<>>
    /\ clock = 0
    /\ pc = [r \in Reqs |-> "idle"]
    /\ upload_id = [r \in Reqs |-> None]
    /\ response = NoResponse
    /\ match_in = NoCall
    /\ match_out = NoMatch
    /\ database = NoUsers
    /\ frame = [r \in Reqs |-> NoFrame]
    /\ outbox = {}

Tick ==
    /\ \E t \in Times : t > clock /\ clock' = t
    /\ UNCHANGED <<students_db, attendance_db, last_attendance_times,
                   known_faces, face_names, pc, upload_id, response,
                   match_in, match_out, outbox,
                   database, frame>>

(* POST /students/ *)
create_student(name) ==
    LET student_id == Cardinality(DOMAIN students_db) + 1 IN
    /\ student_id <= MaxStudents
    /\ students_db' = DictSet(students_db, student_id, name)
    /\ response' = Plain("create_student", student_id, 200)
    /\ UNCHANGED <<attendance_db, last_attendance_times, known_faces,
                   face_names, clock, pc, upload_id, match_in, match_out, outbox,
                   database, frame>>

(* mutant of delete_student: the face data of the student is kept *)
delete_studentKeepsFaces(student_id) ==
    IF student_id \notin DOMAIN students_db
    THEN /\ response' = Plain("delete_student", student_id, 404)
         /\ UNCHANGED <<students_db, attendance_db, last_attendance_times,
                        known_faces, face_names, clock, pc, upload_id,
                        match_in, match_out, outbox, database, frame>>
    ELSE /\ students_db' = DictPop(students_db, student_id)
         /\ response' = Plain("delete_student", student_id, 200)
         /\ UNCHANGED <<attendance_db, last_attendance_times, known_faces,
                        face_names, clock, pc, upload_id, match_in, match_out, outbox,
                        database, frame>>

(* DELETE /students/{student_id} *)
delete_student(student_id) ==
    IF student_id \notin DOMAIN students_db
    THEN /\ response' = Plain("delete_student", student_id, 404)
         /\ UNCHANGED <<students_db, attendance_db, last_attendance_times,
                        known_faces, face_names, clock, pc, upload_id,
                        match_in, match_out, outbox,
                   database, frame>>
    ELSE /\ students_db' = DictPop(students_db, student_id)
         /\ known_faces' = StorePop(known_faces, student_id)
         /\ face_names' = DictPop(face_names, student_id)
         /\ response' = Plain("delete_student", student_id, 200)
         /\ UNCHANGED <<attendance_db, last_attendance_times, clock, pc,
                        upload_id, match_in, match_out, outbox,
                   database, frame>>

(* POST /students/{student_id}/photos, up to the first await file.read() *)
StartUpload(r, student_id) ==
    /\ pc[r] = "idle"
    /\ IF student_id \notin DOMAIN students_db
       THEN /\ response' = Plain("upload", student_id, 404)
            /\ UNCHANGED <<pc, upload_id>>
       ELSE /\ pc' = [pc EXCEPT ![r] = "upload"]
            /\ upload_id' = [upload_id EXCEPT ![r] = student_id]
            /\ UNCHANGED response
    /\ UNCHANGED <<students_db, attendance_db, last_attendance_times,
                   known_faces, face_names, clock, match_in, match_out, outbox,
                   database, frame>>

(* status of the upload once every file is read *)
UploadStatus(db, student_id, decodable, photos) ==
    IF ~decodable THEN 400
    ELSE IF Len(photos) < MinPhotos THEN 400
    ELSE IF student_id \notin DOMAIN db THEN 500
    ELSE IF RegisterOk(photos) THEN 200
    ELSE 400

(* whether the upload reaches face_service.register_face *)
UploadRegisters(db, student_id, decodable, photos) ==
    /\ decodable
    /\ Len(photos) >= MinPhotos
    /\ student_id \in DOMAIN db

(* the rest of upload_student_photos, after the last await *)
ResumeUpload(r, upload) ==
    LET student_id == upload_id[r] IN
    /\ pc[r] = "upload"
    /\ pc' = [pc EXCEPT ![r] = "idle"]
    /\ upload_id' = [upload_id EXCEPT ![r] = None]
    /\ response' = Plain("upload", student_id,
                         UploadStatus(students_db, student_id, upload.decodable,
                                      upload.photos))
    /\ IF UploadRegisters(students_db, student_id, upload.decodable, upload.photos)
       THEN /\ known_faces' = RegisterFaces(known_faces, student_id, upload.photos)
            /\ face_names' = RegisterNames(face_names, student_id,
                                           students_db[student_id], upload.photos)
       ELSE UNCHANGED <<known_faces, face_names>>
    /\ UNCHANGED <<students_db, attendance_db, last_attendance_times, clock,
                   match_in, match_out, outbox,
                   database, frame>>

(* POST /recognize, up to await file.read() *)
StartRecognize(r) ==
    /\ pc[r] = "idle"
    /\ pc' = [pc EXCEPT ![r] = "recognize"]
    /\ UNCHANGED <<students_db, attendance_db, last_attendance_times,
                   known_faces, face_names, clock, upload_id, response,
                   match_in, match_out, outbox,
                   database, frame>>

(* mutant of Commits: the gate does not test whether the match has an id *)
CommitsUnrecognized(last, id, now) == ~InCooldown(last, id, now)

(* the gate of recognize_face: TRUE when the match is written to the log *)
Commits(last, id, now) == id # None /\ ~InCooldown(last, id, now)

GateLog(log, last, m, now) ==
    IF Commits(last, m.id, now)
    THEN Append(log, AttendanceRecord(m.id, now, m.conf, "Webcam"))
    ELSE log

(* mutant of GateLast: the table is not updated on a commit *)
GateLastStale(last, m, now) == last

(* mutant of GateLast: every recognized match moves the entry *)
GateLastAlways(last, m, now) ==
    IF m.id # None THEN DictSet(last, m.id, now) ELSE last

GateLast(last, m, now) ==
    IF Commits(last, m.id, now) THEN DictSet(last, m.id, now) ELSE last

SingleResult(m, bbox) ==
    IF m.id # None
    THEN RecognitionResult(m.id, m.name, m.conf, TRUE, bbox)
    ELSE RecognitionResult(None, NoName, m.conf, FALSE, bbox)

(* the rest of recognize_face, after the await *)
ResumeRecognize(r, image) ==
    /\ pc[r] = "recognize"
    /\ pc' = [pc EXCEPT ![r] = "idle"]
    /\ IF ~image.decodable
       THEN /\ response' = Plain("recognize", None, 400)
            /\ UNCHANGED <<attendance_db, last_attendance_times>>
       ELSE \E faces \in {Detected(image.faces)} :
            \E m \in {ServiceRecognize(known_faces, face_names, faces,
                                       DefaultThreshold)} :
            LET bbox == IF Len(faces) > 0 THEN faces[1].bbox ELSE None IN
            /\ attendance_db' = GateLog(attendance_db, last_attendance_times, m, clock)
            /\ last_attendance_times' = GateLast(last_attendance_times, m, clock)
            /\ response' = Response("recognize", None, 200,
                                    <<SingleResult(m, bbox)>>, 0, 0)
    /\ Len(attendance_db') <= MaxLog
    /\ UNCHANGED <<students_db, known_faces, face_names, clock, upload_id,
                   match_in, match_out, outbox,
                   database, frame>>

(* POST /recognize/multi, up to await file.read() *)
StartMulti(r) ==
    /\ pc[r] = "idle"
    /\ pc' = [pc EXCEPT ![r] = "multi"]
    /\ UNCHANGED <<students_db, attendance_db, last_attendance_times,
                   known_faces, face_names, clock, upload_id, response,
                   match_in, match_out, outbox,
                   database, frame>>

(* the scan that recognize_faces_multi repeats inline *)
RECURSIVE MultiScanFrom(_, _, _, _)
MultiScanFrom(kf, emb, i, acc) ==
    IF i > Len(kf) THEN acc
    ELSE MultiScanFrom(kf, emb, i + 1,
                       IF Better(emb, kf[i].emb, acc.sim)
                       THEN [id |-> kf[i].id, sim |-> Dot(emb, kf[i].emb)]
                       ELSE acc)

MultiScan(kf, emb) == MultiScanFrom(kf, emb, 1, [id |-> None, sim |-> 0])

(* mutant of MultiRecognized: the threshold test always passes *)
MultiRecognizedAlways(best) == TRUE

(* best_similarity >= 0.6 *)
MultiRecognized(best) == best.sim >= DefaultThreshold

(* mutant of ShouldMark: should_mark is never reset *)
ShouldMarkAlways(last, id, now) == TRUE

(* should_mark *)
ShouldMark(last, id, now) == ~InCooldown(last, id, now)

(* mutant of MultiFace: recognized_count counts the marked faces only *)
MultiFaceCountsMarked(acc, face, kf, fn, now) ==
    IF ~face.ok
    THEN [acc EXCEPT !.results =
              Append(@, RecognitionResult(None, NoName, 0, FALSE, None))]
    ELSE LET best == MultiScan(kf, Normalize(face.emb)) IN
         IF MultiRecognized(best)
         THEN LET mark == ShouldMark(acc.last, best.id, now) IN
              [log |-> IF mark
                       THEN Append(acc.log,
                                   AttendanceRecord(best.id, now, best.sim, "Webcam"))
                       ELSE acc.log,
               last |-> IF mark THEN DictSet(acc.last, best.id, now) ELSE acc.last,
               results |-> Append(acc.results,
                                  RecognitionResult(best.id, NameGet(fn, best.id),
                                                    best.sim, TRUE, face.bbox)),
               count |-> IF mark THEN acc.count + 1 ELSE acc.count]
         ELSE [acc EXCEPT !.results =
                   Append(@, RecognitionResult(None, NoName, best.sim, FALSE,
                                               face.bbox))]

(* one iteration of the loop over the detected faces; acc holds the log,  *)
(* the last-seen table, the results and recognized_count so far           *)
MultiFace(acc, face, kf, fn, now) ==
    IF ~face.ok
    THEN [acc EXCEPT !.results =
              Append(@, RecognitionResult(None, NoName, 0, FALSE, None))]
    ELSE LET best == MultiScan(kf, Normalize(face.emb)) IN
         IF MultiRecognized(best)
         THEN LET mark == ShouldMark(acc.last, best.id, now) IN
              [log |-> IF mark
                       THEN Append(acc.log,
                                   AttendanceRecord(best.id, now, best.sim, "Webcam"))
                       ELSE acc.log,
               last |-> IF mark THEN DictSet(acc.last, best.id, now) ELSE acc.last,
               results |-> Append(acc.results,
                                  RecognitionResult(best.id, NameGet(fn, best.id),
                                                    best.sim, TRUE, face.bbox)),
               count |-> acc.count + 1]
         ELSE [acc EXCEPT !.results =
                   Append(@, RecognitionResult(None, NoName, best.sim, FALSE,
                                               face.bbox))]

(* mutant of MultiLoop: the loop ends at the first face without embedding *)
RECURSIVE MultiLoopAborts(_, _, _, _, _, _)
MultiLoopAborts(faces, i, acc, kf, fn, now) ==
    IF i > Len(faces) THEN acc
    ELSE IF ~faces[i].ok THEN acc
    ELSE MultiLoopAborts(faces, i + 1, MultiFace(acc, faces[i], kf, fn, now),
                         kf, fn, now)

RECURSIVE MultiLoop(_, _, _, _, _, _)
MultiLoop(faces, i, acc, kf, fn, now) ==
    IF i > Len(faces) THEN acc
    ELSE MultiLoop(faces, i + 1, MultiFace(acc, faces[i], kf, fn, now), kf, fn, now)

MultiRun(faces, log, last, kf, fn, now) ==
    MultiLoop(faces, 1, [log |-> log, last |-> last, results |-> <<>>, count |-> 0],
              kf, fn, now)

(* the rest of recognize_faces_multi, after the await *)
ResumeMulti(r, image) ==
    /\ pc[r] = "multi"
    /\ pc' = [pc EXCEPT ![r] = "idle"]
    /\ IF ~image.decodable
       THEN /\ response' = Plain("multi", None, 400)
            /\ UNCHANGED <<attendance_db, last_attendance_times>>
       ELSE \E faces \in {Detected(image.faces)} :
            \E out \in {MultiRun(faces, attendance_db, last_attendance_times,
                                 known_faces, face_names, clock)} :
            /\ attendance_db' = out.log
            /\ last_attendance_times' = out.last
            /\ response' = Response("multi", None, 200, out.results,
                                    Len(faces), out.count)
    /\ Len(attendance_db') <= MaxLog
    /\ UNCHANGED <<students_db, known_faces, face_names, clock, upload_id,
                   match_in, match_out, outbox,
                   database, frame>>

(* mutant of clear_all_attendance: the Last-Seen table is emptied as well *)
clear_all_attendance_and_last ==
    /\ attendance_db' = <<>>
    /\ last_attendance_times' = <<>>
    /\ response' = Plain("clear_all_attendance", None, 200)
    /\ UNCHANGED <<students_db, known_faces, face_names, clock, pc, upload_id,
                   match_in, match_out, outbox, database, frame>>

(* DELETE /attendance/all and /attendance/clear-all *)
clear_all_attendance ==
    /\ attendance_db' = <<>>
    /\ response' = Plain("clear_all_attendance", None, 200)
    /\ UNCHANGED <<students_db, last_attendance_times, known_faces, face_names,
                   clock, pc, upload_id, match_in, match_out, outbox,
                   database, frame>>

(* mutant of clear_student_attendance: the records of every student go *)
clear_student_attendance_all(student_id) ==
    /\ attendance_db' = <<>>
    /\ response' = Plain("clear_student_attendance", student_id, 200)
    /\ UNCHANGED <<students_db, last_attendance_times, known_faces, face_names,
                   clock, pc, upload_id, match_in, match_out, outbox,
                   database, frame>>

(* DELETE /attendance/{student_id} *)
clear_student_attendance(student_id) ==
    /\ attendance_db' =
           SelectSeq(attendance_db, LAMBDA rec : rec.student_id # student_id)
    /\ response' = Plain("clear_student_attendance", student_id, 200)
    /\ UNCHANGED <<students_db, last_attendance_times, known_faces, face_names,
                   clock, pc, upload_id, match_in, match_out, outbox,
                   database, frame>>

(* POST /attendance/: the record is the request body, taken as it is *)
mark_attendance(attendance) ==
    /\ Len(attendance_db) < MaxLog
    /\ attendance_db' = Append(attendance_db, attendance)
    /\ response' = Plain("mark_attendance", attendance.student_id, 200)
    /\ UNCHANGED <<students_db, last_attendance_times, known_faces, face_names,
                   clock, pc, upload_id, match_in, match_out, outbox,
                   database, frame>>

ManualRecords ==
    {AttendanceRecord(id, t, SimScale, "Manual") : id \in Ids, t \in {0, clock}}

Next ==
    \/ Tick
    \/ \E name \in Names : create_student(name)
    \/ \E id \in Ids : delete_student(id)
    \/ \E r \in Reqs, id \in Ids : StartUpload(r, id)
    \/ \E r \in Reqs :
           /\ pc[r] = "upload"
           /\ \E upload \in Uploads(RegDirs, 1..5, MaxPhotos) : ResumeUpload(r, upload)
    \/ \E r \in Reqs : StartRecognize(r)
    \/ \E r \in Reqs :
           /\ pc[r] = "recognize"
           /\ \E image \in Images(FaceInputs, MaxFaces) : ResumeRecognize(r, image)
    \/ \E r \in Reqs : StartMulti(r)
    \/ \E r \in Reqs :
           /\ pc[r] = "multi"
           /\ \E image \in Images(FaceInputs, MaxFaces) : ResumeMulti(r, image)
    \/ clear_all_attendance
    \/ \E id \in Ids : clear_student_attendance(id)
    \/ \E rec \in ManualRecords : mark_attendance(rec)

Spec == Init /\ [][Next]_vars

----------------------------------------------------------------------------
(* The gate in isolation: two students are enrolled, requests recognise   *)
(* them while the clock advances and the log is cleared or written by hand *)

Enrolled ==
    << [id |-> 1, emb |-> <<5, 0>>], [id |-> 2, emb |-> <<3, 4>>] >>

GateInit ==
    /\ students_db = (1 :> "Alice" @@ 2 :> "Bob")
    /\ attendance_db = <<>>
    /\ last_attendance_times = <<>>
    /\ known_faces = Enrolled
    /\ face_names = (1 :> "Alice" @@ 2 :> "Bob")
    /\ clock = 0
    /\ pc = [r \in Reqs |-> "idle"]
    /\ upload_id = [r \in Reqs |-> None]
    /\ response = NoResponse
    /\ match_in = NoCall
    /\ match_out = NoMatch
    /\ database = NoUsers
    /\ frame = [r \in Reqs |-> NoFrame]
    /\ outbox = {}

GateNext ==
    \/ Tick
    \/ \E r \in Reqs : StartRecognize(r)
    \/ \E r \in Reqs :
           /\ pc[r] = "recognize"
           /\ \E image \in Images(GateFaces, 1) : ResumeRecognize(r, image)
    \/ \E r \in Reqs : StartMulti(r)
    \/ \E r \in Reqs :
           /\ pc[r] = "multi"
           /\ \E image \in Images(GateFaces, MaxFaces) : ResumeMulti(r, image)

GateSpec == GateInit /\ [][GateNext]_vars

----------------------------------------------------------------------------
(* Properties of the gate *)

(* the step in which request r runs the part of its handler after the await *)
Resumes(r) == pc[r] \in {"recognize", "multi"} /\ pc'[r] = "idle"

(* the identities a response reports as recognized *)
RecognizedIds(resp) ==
    {resp.results[k].student_id : k \in DOMAIN resp.results} \ {None}

RecordsOf(log, id) == SelectSeq(log, LAMBDA rec : rec.student_id = id)

IsPrefix(a, b) == Len(a) <= Len(b) /\ SubSeq(b, 1, Len(a)) = a

(* the records of log2 that follow its prefix log1 *)
Added(log1, log2) == SubSeq(log2, Len(log1) + 1, Len(log2))

(* absent, or now - last_seen >= cooldown_duration *)
Expired(id) ==
    \/ id \notin DOMAIN last_attendance_times
    \/ clock - last_attendance_times[id] >= 300

(* C1: recognition requests that are in flight together and match the     *)
(* same identity never both commit: any two records the gate wrote for one *)
(* identity lie at least one cooldown apart.                               *)
C1_NoDoubleCommit ==
    \A i, j \in DOMAIN attendance_db :
        ( /\ i < j
          /\ attendance_db[i].location = "Webcam"
          /\ attendance_db[j].location = "Webcam"
          /\ attendance_db[i].student_id = attendance_db[j].student_id )
        => attendance_db[j].timestamp - attendance_db[i].timestamp >= 300

(* one request was answered "recognized" for student 1 without writing:    *)
(* the only record is the one another request wrote in the same instant,   *)
(* and a further request is suspended at its await                         *)
C1_Witness ==
    /\ \E r \in Reqs : pc[r] # "idle"
    /\ Len(attendance_db) = 1
    /\ attendance_db[1].student_id = 1
    /\ attendance_db[1].timestamp = clock
    /\ attendance_db[1].confidence = SimScale
    /\ response.status = 200
    /\ Len(response.results) = 1
    /\ response.results[1].student_id = 1
    /\ response.results[1].confidence < SimScale

(* C2: a recognized identity with no Last-Seen entry, or whose entry is    *)
(* 300 s old or older, is committed: the step appends exactly one record   *)
(* for it, stamped now, and sets Last-Seen[identity] to now.               *)
C2_CommitWrites ==
    [][\A r \in Reqs : Resumes(r) =>
          \A id \in RecognizedIds(response') :
              Expired(id) =>
                  /\ IsPrefix(attendance_db, attendance_db')
                  /\ Len(RecordsOf(Added(attendance_db, attendance_db'), id)) = 1
                  /\ RecordsOf(Added(attendance_db, attendance_db'), id)[1].timestamp
                         = clock
                  /\ id \in DOMAIN last_attendance_times'
                  /\ last_attendance_times'[id] = clock]_vars

(* a second record exactly 300 s after the first, Last-Seen moved to it *)
C2_Witness ==
    \E id \in Ids :
        /\ Len(RecordsOf(attendance_db, id)) = 2
        /\ RecordsOf(attendance_db, id)[2].timestamp
               = RecordsOf(attendance_db, id)[1].timestamp + 300
        /\ id \in DOMAIN last_attendance_times
        /\ last_attendance_times[id] = RecordsOf(attendance_db, id)[2].timestamp

(* C3: a recognized identity whose Last-Seen entry is younger than 300 s   *)
(* is suppressed: the step writes no record for it and leaves its entry    *)
(* alone (the whole log and table when every recognized identity is        *)
(* suppressed), and the response still carries the identity, its name and  *)
(* confidence with recognized = true.                                      *)
C3_SuppressLeavesState ==
    [][\A r \in Reqs : Resumes(r) =>
          /\ \A id \in RecognizedIds(response') :
                 ~Expired(id) =>
                     /\ RecordsOf(attendance_db', id) = RecordsOf(attendance_db, id)
                     /\ last_attendance_times'[id] = last_attendance_times[id]
          /\ (\A id \in RecognizedIds(response') : ~Expired(id)) =>
                 /\ attendance_db' = attendance_db
                 /\ last_attendance_times' = last_attendance_times
          /\ \A k \in DOMAIN response'.results :
                 response'.results[k].student_id # None =>
                     /\ response'.results[k].recognized
                     /\ response'.results[k].confidence >= DefaultThreshold
                     /\ response'.results[k].student_name
                            = face_names[response'.results[k].student_id]]_vars

(* student 1 was answered "recognized" with similarity 0.8 one second      *)
(* after its only record, which another request wrote with similarity 1.0  *)
C3_Witness ==
    /\ clock = 1
    /\ Len(attendance_db) = 1
    /\ attendance_db[1].student_id = 1
    /\ attendance_db[1].timestamp = 0
    /\ attendance_db[1].confidence = SimScale
    /\ last_attendance_times[1] = 0
    /\ response.status = 200
    /\ Len(response.results) >= 1
    /\ response.results[1].student_id = 1
    /\ response.results[1].recognized
    /\ response.results[1].confidence < SimScale

(* time of the last record of id in the log, None when there is none *)
LastMarked(log, id) ==
    IF Len(RecordsOf(log, id)) = 0 THEN None
    ELSE RecordsOf(log, id)[Len(RecordsOf(log, id))].timestamp

NeverMarked(log, id) == Len(RecordsOf(log, id)) = 0

(* C4: a gate call for an identity at time t is Marked exactly when the    *)
(* identity was never marked or t is 300 s or more after its last Marked   *)
(* call; a Marked call adds one record and moves Last-Seen to t, any other *)
(* call adds none, so the records of an identity count its Marked calls.   *)
C4_DedupSequence ==
    [][\A r \in Reqs : Resumes(r) =>
          \A id \in Ids :
              LET marked ==
                      /\ id \in RecognizedIds(response')
                      /\ \/ NeverMarked(attendance_db, id)
                         \/ clock - LastMarked(attendance_db, id) >= 300
              IN /\ Len(RecordsOf(attendance_db', id))
                        = Len(RecordsOf(attendance_db, id)) + (IF marked THEN 1 ELSE 0)
                 /\ marked => /\ LastMarked(attendance_db', id) = clock
                              /\ last_attendance_times'[id] = clock]_vars

(* marked at 0, suppressed or not called in between, marked again at 301 *)
C4_Witness ==
    \E id \in Ids :
        /\ Len(RecordsOf(attendance_db, id)) = 2
        /\ RecordsOf(attendance_db, id)[1].timestamp = 0
        /\ RecordsOf(attendance_db, id)[2].timestamp = 301
        /\ last_attendance_times[id] = 301

----------------------------------------------------------------------------
(* The log under every endpoint that writes or clears it *)

(* one face for each enrolled student *)
LogFaces == [ok : {TRUE}, emb : {<<10, 0>>, <<3, 4>>}]

(* requests are served one at a time *)
LogReqs == {1}

LogNext ==
    \/ Tick
    \/ \E r \in LogReqs : StartRecognize(r)
    \/ \E r \in LogReqs :
           /\ pc[r] = "recognize"
           /\ \E image \in Images(LogFaces, 1) : ResumeRecognize(r, image)
    \/ \E r \in LogReqs : StartMulti(r)
    \/ \E r \in LogReqs :
           /\ pc[r] = "multi"
           /\ \E image \in Images(LogFaces, MaxFaces) : ResumeMulti(r, image)
    \/ clear_all_attendance
    \/ \E id \in Ids : clear_student_attendance(id)
    \/ \E rec \in ManualRecords : mark_attendance(rec)

LogSpec == GateInit /\ [][LogNext]_vars

(* C5: any two records of the log for the same identity, whatever endpoint *)
(* wrote them, have timestamps at least 300 s apart.                       *)
C5_MinInterval ==
    \A i, j \in DOMAIN attendance_db :
        (i < j /\ attendance_db[i].student_id = attendance_db[j].student_id)
        => \/ attendance_db[j].timestamp - attendance_db[i].timestamp >= 300
           \/ attendance_db[i].timestamp - attendance_db[j].timestamp >= 300

----------------------------------------------------------------------------
(* The matcher on its own: face_service.recognize_face(image, threshold)   *)
(* called with any threshold on every store that registration can build    *)

(* a registration on direction dir stores dir, its opposite, or NaN *)
StoredEmbeddings ==
    {Normalize(Scaled(k, dir)) : k \in {-1, 0, 1}, dir \in RegDirs}

NameOf(id) == IF id = 1 THEN "Alice" ELSE "Bob"

Stores ==
    {kf \in UNION {[1..k -> [id : Ids, emb : StoredEmbeddings]] : k \in 0..MaxStudents} :
        \A i, j \in DOMAIN kf : i # j => kf[i].id # kf[j].id}

MatchFaces ==
    [ok : {TRUE}, emb : {<<10, 0>>, <<3, 4>>, <<-3, 4>>, <<-5, 0>>}]
    \cup [ok : {FALSE}, emb : {NaNVec}]

Thresholds == {-SimScale, 0, DefaultThreshold, SimScale}

MatchInit ==
    /\ known_faces \in Stores
    /\ face_names = [id \in StoreIds(known_faces) |-> NameOf(id)]
    /\ students_db = [id \in StoreIds(known_faces) |-> NameOf(id)]
    /\ attendance_db = <<>>
    /\ last_attendance_times = <<>>
    /\ clock = 0
    /\ pc = [r \in Reqs |-> "idle"]
    /\ upload_id = [r \in Reqs |-> None]
    /\ response = NoResponse
    /\ match_in = NoCall
    /\ match_out = NoMatch
    /\ database = NoUsers
    /\ frame = [r \in Reqs |-> NoFrame]
    /\ outbox = {}

MatchCall(faces, threshold) ==
    /\ match_in' = [faces |-> faces, threshold |-> threshold]
    /\ match_out' = ServiceRecognize(known_faces, face_names, faces, threshold)
    /\ UNCHANGED <<students_db, attendance_db, last_attendance_times,
                   known_faces, face_names, clock, pc, upload_id, response,
                   database, frame, outbox>>

MatchNext ==
    \E image \in Images(MatchFaces, MaxFaces), t \in Thresholds :
        /\ image.decodable
        /\ MatchCall(Detected(image.faces), t)

MatchSpec == MatchInit /\ [][MatchNext]_vars

(* the query of the last call, when the image held one face with an embedding *)
HasQuery == Len(match_in.faces) = 1 /\ match_in.faces[1].ok

Query == Normalize(match_in.faces[1].emb)

NoNaN(kf) == \A i \in DOMAIN kf : ~IsNaN(kf[i].emb)

(* the largest similarity of the query over a non-empty store *)
BestSim(kf, q) ==
    CHOOSE x \in {Dot(q, kf[i].emb) : i \in DOMAIN kf} :
        \A i \in DOMAIN kf : Dot(q, kf[i].emb) <= x

(* the first entry of the scan that attains it *)
FirstBest(kf, q) ==
    kf[CHOOSE i \in DOMAIN kf :
           /\ Dot(q, kf[i].emb) = BestSim(kf, q)
           /\ \A j \in 1..(i - 1) : Dot(q, kf[j].emb) < BestSim(kf, q)].id

(* C7: for every query, store and threshold, the result is recognized iff  *)
(* the store holds an entry and the best similarity is >= the threshold.   *)
C7_RecognizedIff ==
    (HasQuery /\ NoNaN(known_faces)) =>
        ( match_out.id # None
          <=> /\ Len(known_faces) > 0
              /\ BestSim(known_faces, Query) >= match_in.threshold )

(* C8: the matcher reports the maximum similarity over all entries and,    *)
(* when it reports an identity, the first entry that attains the maximum.  *)
C8_ReportsMaximum ==
    (HasQuery /\ NoNaN(known_faces) /\ Len(known_faces) > 0) =>
        /\ match_out.conf = BestSim(known_faces, Query)
        /\ match_out.conf >= match_in.threshold
               => match_out.id = FirstBest(known_faces, Query)

(* C9: for a fixed query and store, a call that is not recognized stays    *)
(* not recognized when the call is repeated with an equal or higher        *)
(* threshold.                                                              *)
C9_ThresholdMonotone ==
    [][( /\ match_in'.faces = match_in.faces
         /\ known_faces' = known_faces
         /\ match_in.threshold <= match_in'.threshold
         /\ match_out.id = None )
       => match_out'.id = None]_vars

(* a positive best similarity that the highest threshold rejects *)
C9_Witness ==
    /\ HasQuery
    /\ match_in.threshold = SimScale
    /\ match_out.id = None
    /\ match_out.conf >= DefaultThreshold

----------------------------------------------------------------------------
(* The store under creation, registration, deletion and recognition *)

StoreDirs == {<<5, 0>>}

(* photos with one face, of either sign, and photos with no face *)
StoreKinds == {1, 2, 3}

StoreNames == {"Alice"}

StoreFaces ==
    [ok : {TRUE}, emb : {<<10, 0>>, <<-5, 0>>}] \cup [ok : {FALSE}, emb : {NaNVec}]

StoreUploads == Uploads(StoreDirs, StoreKinds, MaxPhotos)

StoreImages == Images(StoreFaces, 1)

StoreNext ==
    \/ \E name \in StoreNames : create_student(name)
    \/ \E id \in Ids : delete_student(id)
    \/ \E r \in Reqs, id \in Ids : StartUpload(r, id)
    \/ \E r \in Reqs :
           /\ pc[r] = "upload"
           /\ \E upload \in StoreUploads : ResumeUpload(r, upload)
    \/ \E r \in Reqs : StartRecognize(r)
    \/ \E r \in Reqs :
           /\ pc[r] = "recognize"
           /\ \E image \in StoreImages : ResumeRecognize(r, image)
    \/ \E r \in Reqs : StartMulti(r)
    \/ \E r \in Reqs :
           /\ pc[r] = "multi"
           /\ \E image \in StoreImages : ResumeMulti(r, image)

StoreSpec == Init /\ [][StoreNext]_vars

(* the step deletes the student record of id *)
Deletes(id) == id \in DOMAIN students_db /\ id \notin DOMAIN students_db'

(* C6: deleting an identity removes its embedding and its Last-Seen entry, *)
(* so that the same id, created and registered again, is Marked on its     *)
(* first recognition.                                                      *)
C6_DeleteClearsLastSeen ==
    [][\A id \in Ids : Deletes(id) =>
          /\ ~StoreHas(known_faces', id)
          /\ id \notin DOMAIN last_attendance_times']_vars

(* the step answers a DELETE /students/{id} for a student that is not there *)
DeletesAbsent(id) ==
    /\ id \notin DOMAIN students_db
    /\ response' # response
    /\ response'.op = "delete_student"
    /\ response'.id = id

(* C10 as stated: a second removal of the same identity produces no error  *)
(* and leaves the state as after the first.                                *)
C10_RemovalIdempotent ==
    [][\A id \in Ids :
          ( /\ response.op = "delete_student"
            /\ response.status = 200
            /\ response.id = id
            /\ DeletesAbsent(id) )
          => /\ response'.status = 200
             /\ UNCHANGED <<students_db, known_faces, face_names,
                            attendance_db, last_attendance_times>>]_vars

(* C10, amended: a removal of an identity that is not there is answered    *)
(* 404 and changes nothing; a removal takes the identity out of the        *)
(* embeddings and the names; a match, single or batch, returns only        *)
(* identities of the store, and an identity enters the store only by a     *)
(* successful registration.                                                *)
C10_RemovalAmended ==
    [][/\ \A id \in Ids :
             /\ DeletesAbsent(id) =>
                    /\ response'.status = 404
                    /\ UNCHANGED <<students_db, known_faces, face_names,
                                   attendance_db, last_attendance_times>>
             /\ Deletes(id) =>
                    /\ ~StoreHas(known_faces', id)
                    /\ id \notin DOMAIN face_names'
             /\ (~StoreHas(known_faces, id) /\ StoreHas(known_faces', id)) =>
                    /\ response'.op = "upload"
                    /\ response'.id = id
                    /\ response'.status = 200
       /\ \A r \in Reqs : Resumes(r) =>
              RecognizedIds(response') \subseteq StoreIds(known_faces)]_vars

(* student 1 was enrolled and marked, then removed, and a further removal  *)
(* was answered 404                                                        *)
C10_Witness ==
    /\ response.op = "delete_student"
    /\ response.id = 1
    /\ response.status = 404
    /\ 1 \in DOMAIN last_attendance_times
    /\ 1 \notin DOMAIN students_db
    /\ ~StoreHas(known_faces, 1)

----------------------------------------------------------------------------
(* Matching against an empty store *)

(* a result entry that names nobody, with score 0.0 *)
IsNobody(res) ==
    /\ res.student_id = None
    /\ res.student_name = NoName
    /\ res.confidence = 0
    /\ ~res.recognized

(* C11: with an empty store a match is not an error: every result has no   *)
(* identity, no name, score 0.0 and recognized = false, no record is       *)
(* written and the Last-Seen table is unchanged.                           *)
C11_EmptyStoreNoMatch ==
    [][\A r \in Reqs : \A image \in StoreImages :
          ( /\ known_faces = <<>>
            /\ pc[r] \in {"recognize", "multi"}
            /\ image.decodable
            /\ ResumeRecognize(r, image) \/ ResumeMulti(r, image) )
          => /\ response'.status = 200
             /\ \A k \in DOMAIN response'.results : IsNobody(response'.results[k])
             /\ response'.recognized_count = 0
             /\ UNCHANGED <<attendance_db, last_attendance_times>>]_vars

(* student 1 was enrolled, marked and deleted; a face with an embedding    *)
(* was then matched against the empty store                                *)
C11_Witness ==
    /\ known_faces = <<>>
    /\ 1 \in DOMAIN last_attendance_times
    /\ Len(attendance_db) = 1
    /\ response.op = "multi"
    /\ response.status = 200
    /\ Len(response.results) = 1
    /\ response.results[1].bbox # None
    /\ IsNobody(response.results[1])

----------------------------------------------------------------------------
(* Registration: students are created and deleted while one upload request *)
(* at a time registers photos of every kind                                *)

RegUploads == Uploads(RegDirs, 1..5, MaxPhotos)

RegNext ==
    \/ \E name \in Names : create_student(name)
    \/ \E id \in Ids : delete_student(id)
    \/ \E r \in LogReqs, id \in Ids : StartUpload(r, id)
    \/ \E r \in LogReqs :
           /\ pc[r] = "upload"
           /\ \E upload \in RegUploads : ResumeUpload(r, upload)

RegSpec == Init /\ [][RegNext]_vars

(* the photos that contribute a candidate embedding *)
ValidCandidates(photos) ==
    Cardinality({i \in DOMAIN photos : photos[i].faces = 1 /\ photos[i].ok})

(* the uploads with fewer than 3 valid candidates *)
TooFewUploads == {upload \in RegUploads : ValidCandidates(upload.photos) < 3}

(* C12: a registration with fewer than 3 valid candidate embeddings is     *)
(* rejected and leaves the store unchanged: no embedding and no name, of   *)
(* that identity or of another, is created or replaced.                    *)
C12_TooFewRejected ==
    [][\A r \in LogReqs : pc[r] = "upload" =>
          \A upload \in TooFewUploads :
              ResumeUpload(r, upload)
              => /\ response'.op = "upload"
                 /\ response'.status >= 400
                 /\ UNCHANGED <<known_faces, face_names>>]_vars

(* a re-registration of the enrolled student 1 was rejected and its        *)
(* embedding is still there                                                *)
C12_Witness ==
    /\ response.op = "upload"
    /\ response.id = 1
    /\ response.status = 400
    /\ StoreHas(known_faces, 1)
    /\ 1 \in DOMAIN face_names

(* C13: a registration whose mean candidate vector has zero norm stores    *)
(* nothing: no embedding derived from a zero-norm mean is in the store.    *)
C13_NoDegenerateStored ==
    \A i \in DOMAIN known_faces : ~IsNaN(known_faces[i].emb)

----------------------------------------------------------------------------
(* Face embeddings of user accounts: routes/auth.py, /face/register and    *)
(* /face/verify.  A user document of the users collection is               *)
(* [face_registered, face_embeddings]; the numbers of an embedding are     *)
(* integers in units of 1/FaceScale.                                       *)

Users == 1..MaxUsers

(* threshold = 0.6 *)
FaceThreshold == (6 * FaceScale) \div 10

NoFace == [face_registered |-> FALSE, face_embeddings |-> <<>>]

(* a bearer token: whether jwt.decode accepts it, and the user_id of its   *)
(* payload, None when the payload has none                                 *)
FaceTokens ==
    [valid : {TRUE}, user_id : Users \cup {None}]
    \cup {[valid |-> FALSE, user_id |-> None]}

(* request bodies: lists of FaceDim numbers, one number less, one more,    *)
(* and the empty list                                                      *)
FaceVec(n, a) == [i \in 1..n |-> IF i = 1 THEN a ELSE 0]

FaceBodies ==
    {FaceVec(n, a) : n \in {FaceDim - 1, FaceDim, FaceDim + 1},
                     a \in {0, FaceScale \div 2, FaceScale}}
    \cup {<<>>}

(* mutant of ValidFaceEmbeddings: any non-empty list passes *)
ValidFaceEmbeddingsAny(emb) == Len(emb) # 0

(* not (not face_embeddings or len(face_embeddings) != 128) *)
ValidFaceEmbeddings(emb) == Len(emb) # 0 /\ Len(emb) = FaceDim

(* sum((a - b) ** 2 for a, b in zip(stored, query)): zip stops at the end  *)
(* of the shorter list; the sum over lo..hi is taken by halves             *)
RECURSIVE SumSqRange(_, _, _, _)
SumSqRange(a, b, lo, hi) ==
    IF lo > hi THEN 0
    ELSE IF lo = hi THEN (a[lo] - b[lo]) * (a[lo] - b[lo])
    ELSE LET mid == (lo + hi) \div 2 IN
         SumSqRange(a, b, lo, mid) + SumSqRange(a, b, mid + 1, hi)

ZipLen(a, b) == IF Len(a) < Len(b) THEN Len(a) ELSE Len(b)

FaceDistance(stored, query) ==
    Isqrt(SumSqRange(stored, query, 1, ZipLen(stored, query)))

(* max(0, min(1, 1 - distance / 1.0)) *)
FaceConfidence(distance) ==
    LET c == FaceScale - distance IN
    IF c < 0 THEN 0 ELSE IF c > FaceScale THEN FaceScale ELSE c

VerifyResult(stored, query) ==
    LET distance == FaceDistance(stored, query) IN
    [verified |-> distance < FaceThreshold,
     confidence |-> FaceConfidence(distance),
     distance |-> distance,
     threshold |-> FaceThreshold]

(* auth_service.get_user_by_id returns a user: the database answers the    *)
(* query and holds a document with this _id                                *)
UserFound(db, user_id, reachable) == reachable /\ user_id \in DOMAIN db.users

(* POST /face/register and /face/verify up to await get_user_by_id *)
StartFace(r, op, token, body) ==
    /\ pc[r] = "idle"
    /\ IF ~token.valid \/ token.user_id = None
       THEN /\ response' = Plain(op, None, 401)
            /\ UNCHANGED <<pc, frame>>
       ELSE /\ pc' = [pc EXCEPT ![r] = op]
            /\ frame' = [frame EXCEPT ![r] =
                             [user_id |-> token.user_id, face_embeddings |-> body]]
            /\ UNCHANGED response
    /\ UNCHANGED <<students_db, attendance_db, last_attendance_times,
                   known_faces, face_names, clock, upload_id, match_in,
                   match_out, outbox, database>>

(* /face/register from get_user_by_id to await update_one *)
FindFaceRegister(r, reachable) ==
    LET user_id == frame[r].user_id IN
    /\ pc[r] = "face_register"
    /\ IF ~UserFound(database, user_id, reachable)
       THEN /\ response' = Plain("face_register", user_id, 404)
            /\ pc' = [pc EXCEPT ![r] = "idle"]
            /\ frame' = [frame EXCEPT ![r] = NoFrame]
       ELSE IF ~ValidFaceEmbeddings(frame[r].face_embeddings)
       THEN /\ response' = Plain("face_register", user_id, 400)
            /\ pc' = [pc EXCEPT ![r] = "idle"]
            /\ frame' = [frame EXCEPT ![r] = NoFrame]
       ELSE /\ pc' = [pc EXCEPT ![r] = "face_register_update"]
            /\ UNCHANGED <<response, frame>>
    /\ UNCHANGED <<students_db, attendance_db, last_attendance_times,
                   known_faces, face_names, clock, upload_id, match_in,
                   match_out, outbox, database>>

(* /face/register: update_one is applied and the handler returns *)
UpdateFaceRegister(r) ==
    LET user_id == frame[r].user_id IN
    /\ pc[r] = "face_register_update"
    /\ database' = [database EXCEPT !.users[user_id] =
                        [face_registered |-> TRUE,
                         face_embeddings |-> frame[r].face_embeddings]]
    /\ response' = Plain("face_register", user_id, 200)
    /\ pc' = [pc EXCEPT ![r] = "idle"]
    /\ frame' = [frame EXCEPT ![r] = NoFrame]
    /\ UNCHANGED <<students_db, attendance_db, last_attendance_times,
                   known_faces, face_names, clock, upload_id, match_in,
                   match_out, outbox>>

(* /face/verify after get_user_by_id *)
FindFaceVerify(r, reachable) ==
    LET user_id == frame[r].user_id
        query == frame[r].face_embeddings
    IN
    /\ pc[r] = "face_verify"
    /\ pc' = [pc EXCEPT ![r] = "idle"]
    /\ frame' = [frame EXCEPT ![r] = NoFrame]
    /\ response' =
           IF ~UserFound(database, user_id, reachable)
           THEN Plain("face_verify", user_id, 404)
           ELSE IF \/ ~database.users[user_id].face_registered
                   \/ Len(database.users[user_id].face_embeddings) = 0
           THEN Plain("face_verify", user_id, 400)
           ELSE IF ~ValidFaceEmbeddings(query)
           THEN Plain("face_verify", user_id, 400)
           ELSE Response("face_verify", user_id, 200,
                         <<VerifyResult(database.users[user_id].face_embeddings,
                                        query)>>, 0, 0)
    /\ UNCHANGED <<students_db, attendance_db, last_attendance_times,
                   known_faces, face_names, clock, upload_id, match_in,
                   match_out, outbox, database>>

(* two accounts exist and neither has registered a face *)
FaceInit ==
    /\ students_db = <<>>
    /\ attendance_db = <<>>
    /\ last_attendance_times = <<>>
    /\ known_faces = <<>>
    /\ face_names = <<>>
    /\ clock = 0
    /\ pc = [r \in Reqs |-> "idle"]
    /\ upload_id = [r \in Reqs |-> None]
    /\ response = NoResponse
    /\ match_in = NoCall
    /\ match_out = NoMatch
    /\ database = [users |-> [u \in Users |-> NoFace]]
    /\ frame = [r \in Reqs |-> NoFrame]
    /\ outbox = {}

FaceNext ==
    \/ \E r \in LogReqs, token \in FaceTokens, body \in FaceBodies :
           StartFace(r, "face_register", token, body)
    \/ \E r \in LogReqs, token \in FaceTokens, body \in FaceBodies :
           StartFace(r, "face_verify", token, body)
    \/ \E r \in LogReqs, reachable \in BOOLEAN : FindFaceRegister(r, reachable)
    \/ \E r \in LogReqs : UpdateFaceRegister(r)
    \/ \E r \in LogReqs, reachable \in BOOLEAN : FindFaceVerify(r, reachable)

FaceSpec == FaceInit /\ [][FaceNext]_vars

(* C14: a request whose embedding has not the stored length is rejected    *)
(* and leaves the stored embeddings alone; a comparison that is answered   *)
(* ran over two lists of equal length; every stored embedding has the      *)
(* fixed length.                                                           *)
C14_MismatchRejected ==
    [][\A r \in LogReqs :
          LET body == frame[r].face_embeddings
              user_id == frame[r].user_id
          IN
          /\ ( /\ pc[r] \in {"face_register", "face_verify"}
               /\ pc'[r] # pc[r]
               /\ Len(body) # 128 )
             => /\ pc'[r] = "idle"
                /\ response'.op = pc[r]
                /\ response'.status >= 400
                /\ database' = database
          /\ ( /\ pc[r] = "face_verify"
               /\ pc'[r] = "idle"
               /\ response'.status = 200 )
             => Len(body) = Len(database.users[user_id].face_embeddings)
          /\ \A u \in Users :
                 database'.users[u].face_registered
                     => Len(database'.users[u].face_embeddings) = 128]_vars

(* a user with a registered face sent a list that /face/verify rejected *)
C14_Witness ==
    /\ response.op = "face_verify"
    /\ response.status = 400
    /\ response.id \in Users
    /\ database.users[response.id].face_registered

----------------------------------------------------------------------------
(* Batch recognition: images of up to MaxFaces faces, each the face of an  *)
(* enrolled student, an unknown face, or a face without embedding          *)

BatchFaces ==
    [ok : {TRUE}, emb : {<<10, 0>>, <<3, 4>>, <<-3, 4>>}]
    \cup [ok : {FALSE}, emb : {NaNVec}]

BatchImages == Images(BatchFaces, MaxFaces)

BatchNext ==
    \/ Tick
    \/ \E r \in LogReqs : StartMulti(r)
    \/ \E r \in LogReqs :
           /\ pc[r] = "multi"
           /\ \E image \in BatchImages : ResumeMulti(r, image)

BatchSpec == GateInit /\ [][BatchNext]_vars

(* the outcome of one face against the store: its best similarity, and     *)
(* whether that passes the threshold                                       *)
FaceScore(face) ==
    IF face.ok THEN BestSim(known_faces, Normalize(face.emb)) ELSE 0

FaceRecognized(face) == face.ok /\ FaceScore(face) >= DefaultThreshold

(* C15: a batch returns one result per detected face in input order:       *)
(* len(results) = total_faces, and results[i] carries the outcome and the  *)
(* bounding box of face i, also for a face whose extraction failed.        *)
C15_OneResultPerFace ==
    [][\A r \in LogReqs : pc[r] = "multi" =>
          \A image \in BatchImages :
              (image.decodable /\ ResumeMulti(r, image))
              => /\ Len(response'.results) = Len(image.faces)
                 /\ response'.total_faces = Len(image.faces)
                 /\ \A i \in DOMAIN image.faces :
                        /\ response'.results[i].bbox = Detected(image.faces)[i].bbox
                        /\ response'.results[i].confidence = FaceScore(image.faces[i])
                        /\ response'.results[i].recognized
                               = FaceRecognized(image.faces[i])]_vars

(* C16: recognized_count is the number of results with recognized = true,  *)
(* whether the face was committed or suppressed by the cooldown.           *)
C16_RecognizedCount ==
    (response.op = "multi" /\ response.status = 200) =>
        response.recognized_count
            = Cardinality({k \in DOMAIN response.results :
                               response.results[k].recognized})

(* two faces of one student in a batch: both are counted, one is written *)
C16_Witness ==
    /\ response.op = "multi"
    /\ response.recognized_count = 2
    /\ response.results[1].student_id = response.results[2].student_id
    /\ Len(RecordsOf(attendance_db, response.results[1].student_id)) = 1

(* C17: a face whose extraction fails gives an entry with confidence 0.0   *)
(* and recognized = false and writes nothing, and the batch goes on: the   *)
(* request is answered, every other face has its result, and the records   *)
(* written are those of recognized faces.                                  *)
C17_FailedFaceSkipped ==
    [][\A r \in LogReqs : pc[r] = "multi" =>
          \A image \in BatchImages :
              ( /\ image.decodable
                /\ \E i \in DOMAIN image.faces : ~image.faces[i].ok
                /\ ResumeMulti(r, image) )
              => /\ response'.status = 200
                 /\ Len(response'.results) = Len(image.faces)
                 /\ \A i \in DOMAIN image.faces :
                        IF image.faces[i].ok
                        THEN /\ response'.results[i].confidence
                                    = FaceScore(image.faces[i])
                             /\ response'.results[i].recognized
                                    = FaceRecognized(image.faces[i])
                        ELSE IsNobody(response'.results[i])
                 /\ IsPrefix(attendance_db, attendance_db')
                 /\ Len(Added(attendance_db, attendance_db'))
                        <= Cardinality({i \in DOMAIN image.faces :
                                            FaceRecognized(image.faces[i])})
                 /\ \A id \in Ids :
                        id \notin RecognizedIds(response')
                        => /\ RecordsOf(attendance_db', id) = RecordsOf(attendance_db, id)
                           /\ (id \in DOMAIN last_attendance_times')
                                  = (id \in DOMAIN last_attendance_times)]_vars

(* the first face of a batch had no embedding, the second was recognized   *)
(* and written                                                             *)
C17_Witness ==
    /\ response.op = "multi"
    /\ response.status = 200
    /\ Len(response.results) = 2
    /\ IsNobody(response.results[1])
    /\ response.results[1].bbox = None
    /\ response.results[2].recognized
    /\ Len(attendance_db) > 0
    /\ attendance_db[Len(attendance_db)].timestamp = clock
    /\ attendance_db[Len(attendance_db)].student_id = response.results[2].student_id

----------------------------------------------------------------------------
(* Errors and shared state *)

(* C18: a request that ends in an error leaves the embedding store, the    *)
(* Last-Seen table and the attendance log as they were before it.          *)
C18_ErrorsLeaveState ==
    [][response'.status >= 400 =>
          UNCHANGED <<known_faces, face_names, last_attendance_times,
                      attendance_db>>]_vars

(* a batch recognition was answered with an error while a student is       *)
(* enrolled and marked                                                     *)
C18_Witness ==
    /\ response.op = "multi"
    /\ response.status = 400
    /\ Len(known_faces) > 0
    /\ Len(attendance_db) > 0
    /\ DOMAIN last_attendance_times # {}

----------------------------------------------------------------------------
(* The attendance log over time *)

(* C19 as stated: the log is append-only: every step keeps the records it  *)
(* had, unmodified and in their order.                                     *)
C19_AppendOnly ==
    [][IsPrefix(attendance_db, attendance_db')]_vars

(* C19, amended: records are appended at the end and never modified or     *)
(* reordered; records leave the log only by a clear request, which removes *)
(* all records or all records of one student and keeps the others in order *)
C19_AppendOnlyExceptClear ==
    [][\/ IsPrefix(attendance_db, attendance_db')
       \/ /\ response'.op = "clear_all_attendance"
          /\ attendance_db' = <<>>
       \/ /\ response'.op = "clear_student_attendance"
          /\ \E id \in Ids :
                 /\ response'.id = id
                 /\ attendance_db'
                        = SelectSeq(attendance_db, LAMBDA rec : rec.student_id # id)]_vars

(* the records of one marked student were cleared, the record of the other *)
(* student is still in the log                                             *)
C19_Witness ==
    /\ response.op = "clear_student_attendance"
    /\ response.id \in DOMAIN last_attendance_times
    /\ Len(attendance_db) = 1
    /\ attendance_db[1].student_id # response.id

(* C20: the records of any single identity appear in the log in            *)
(* non-decreasing timestamp order.                                         *)
C20_PerIdentityMonotone ==
    \A i, j \in DOMAIN attendance_db :
        (i < j /\ attendance_db[i].student_id = attendance_db[j].student_id)
        => attendance_db[i].timestamp <= attendance_db[j].timestamp

----------------------------------------------------------------------------
(* The Last-Seen table *)

(* the step creates the entry of id or changes its value *)
LastSeenMoves(id) ==
    /\ id \in DOMAIN last_attendance_times'
    /\ \/ id \notin DOMAIN last_attendance_times
       \/ last_attendance_times'[id] # last_attendance_times[id]

(* C21: an entry of the Last-Seen table is the timestamp of the most       *)
(* recent record the gate wrote for that identity: an entry is created or  *)
(* changed only by a recognition step that appends a record for the        *)
(* identity, stamped with the new value, and every recognition step that   *)
(* appends records for an identity leaves the entry at the timestamp of    *)
(* the last of them; a suppressed or unrecognized match moves no entry.    *)
C21_LastSeenIsLastWrite ==
    [][\A id \in Ids :
          LET written == RecordsOf(Added(attendance_db, attendance_db'), id) IN
          /\ LastSeenMoves(id) =>
                 /\ \E r \in LogReqs : Resumes(r)
                 /\ id \in RecognizedIds(response')
                 /\ IsPrefix(attendance_db, attendance_db')
                 /\ Len(written) > 0
                 /\ written[Len(written)].timestamp = last_attendance_times'[id]
                 /\ written[Len(written)].location = "Webcam"
          /\ ( /\ \E r \in LogReqs : Resumes(r)
               /\ IsPrefix(attendance_db, attendance_db')
               /\ Len(written) > 0 )
             => /\ id \in DOMAIN last_attendance_times'
                /\ last_attendance_times'[id] = written[Len(written)].timestamp
          /\ id \in DOMAIN last_attendance_times
                 => id \in DOMAIN last_attendance_times']_vars

(* a student was written at 0 and at 300 and matched again at 301: the     *)
(* entry is the time of the second record, the third match was suppressed  *)
C21_Witness ==
    \E id \in Ids :
        /\ clock = 301
        /\ Len(RecordsOf(attendance_db, id)) = 2
        /\ RecordsOf(attendance_db, id)[2].timestamp = 300
        /\ id \in DOMAIN last_attendance_times
        /\ last_attendance_times[id] = 300
        /\ response.status = 200
        /\ id \in RecognizedIds(response)

----------------------------------------------------------------------------
(* Matching and the store *)

(* C22: matching is pure with respect to the store: a recognition, single  *)
(* or batch, leaves the embeddings and the names unchanged, and when no    *)
(* face of the query is recognized the Last-Seen table and the attendance  *)
(* log are unchanged as well.                                              *)
C22_MatchingIsPure ==
    [][\A r \in Reqs : Resumes(r) =>
          /\ UNCHANGED <<known_faces, face_names>>
          /\ RecognizedIds(response') = {}
                 => UNCHANGED <<attendance_db, last_attendance_times>>]_vars

(* a face with an embedding was matched against a store that holds an      *)
(* enrolled and marked student, and was not recognized                     *)
C22_Witness ==
    /\ response.op = "recognize"
    /\ response.status = 200
    /\ ~response.results[1].recognized
    /\ response.results[1].bbox # None
    /\ Len(known_faces) > 0
    /\ Len(attendance_db) > 0
    /\ DOMAIN last_attendance_times # {}

----------------------------------------------------------------------------
(* The scan of recognize_faces_multi step by step.  The handlers are       *)
(* coroutines of one event loop (async def, served by uvicorn.run): a      *)
(* handler that is between two awaits holds the loop, and no other handler *)
(* takes a step until it reaches an await or returns.  Here the batch      *)
(* handler is split at every iteration of its loops; frame[r] holds its    *)
(* locals: the detected faces, the index k of the face at hand, the cursor *)
(* i of the scan over known_faces, the best match so far, the results and  *)
(* recognized_count.                                                       *)

(* the handlers that are between two awaits *)
Running(p) == {r \in Reqs : p[r] = "multi_scan"}

(* mutant of LoopFree: handlers run on threads and step at any time *)
LoopFreeThreads(p) == TRUE

(* the event loop is free to start or resume a handler *)
LoopFree(p) == Running(p) = {}

NoBest == [id |-> None, sim |-> 0]

ScanFrame(faces) ==
    [faces |-> faces, k |-> 1, i |-> 1, best |-> NoBest, results |-> <<>>,
     count |-> 0]

(* recognize_faces_multi from the await to the loop over the faces *)
BeginMulti(r, image) ==
    /\ pc[r] = "multi"
    /\ IF ~image.decodable
       THEN /\ response' = Plain("multi", None, 400)
            /\ pc' = [pc EXCEPT ![r] = "idle"]
            /\ UNCHANGED frame
       ELSE /\ pc' = [pc EXCEPT ![r] = "multi_scan"]
            /\ frame' = [frame EXCEPT ![r] = ScanFrame(Detected(image.faces))]
            /\ UNCHANGED response
    /\ UNCHANGED <<students_db, attendance_db, last_attendance_times,
                   known_faces, face_names, clock, upload_id, match_in,
                   match_out, outbox, database>>

(* one iteration of: for student_id, known_embedding in known_faces.items() *)
ScanStep(r) ==
    LET f == frame[r] IN
    /\ pc[r] = "multi_scan"
    /\ f.k <= Len(f.faces)
    /\ f.faces[f.k].ok
    /\ f.i <= Len(known_faces)
    /\ LET emb == Normalize(f.faces[f.k].emb)
           known == known_faces[f.i]
       IN frame' = [frame EXCEPT ![r] =
                       [f EXCEPT !.i = f.i + 1,
                                 !.best = IF Better(emb, known.emb, f.best.sim)
                                          THEN [id |-> known.id,
                                                sim |-> Dot(emb, known.emb)]
                                          ELSE f.best]]
    /\ UNCHANGED <<students_db, attendance_db, last_attendance_times,
                   known_faces, face_names, clock, pc, upload_id, response,
                   match_in, match_out, outbox, database>>

(* the rest of the iteration for one face, once its scan is over: the      *)
(* threshold, the cooldown, the record and the result entry                *)
MultiGate(acc, face, best, fn, now) ==
    IF ~face.ok
    THEN [acc EXCEPT !.results =
              Append(@, RecognitionResult(None, NoName, 0, FALSE, None))]
    ELSE IF MultiRecognized(best)
    THEN LET mark == ShouldMark(acc.last, best.id, now) IN
         [log |-> IF mark
                  THEN Append(acc.log,
                              AttendanceRecord(best.id, now, best.sim, "Webcam"))
                  ELSE acc.log,
          last |-> IF mark THEN DictSet(acc.last, best.id, now) ELSE acc.last,
          results |-> Append(acc.results,
                             RecognitionResult(best.id, NameGet(fn, best.id),
                                               best.sim, TRUE, face.bbox)),
          count |-> acc.count + 1]
    ELSE [acc EXCEPT !.results =
              Append(@, RecognitionResult(None, NoName, best.sim, FALSE,
                                          face.bbox))]

FaceEnd(r) ==
    LET f == frame[r] IN
    /\ pc[r] = "multi_scan"
    /\ f.k <= Len(f.faces)
    /\ ~f.faces[f.k].ok \/ f.i > Len(known_faces)
    /\ LET out == MultiGate([log |-> attendance_db, last |-> last_attendance_times,
                             results |-> f.results, count |-> f.count],
                            f.faces[f.k], f.best, face_names, clock)
       IN /\ attendance_db' = out.log
          /\ last_attendance_times' = out.last
          /\ frame' = [frame EXCEPT ![r] =
                          [f EXCEPT !.k = f.k + 1, !.i = 1, !.best = NoBest,
                                    !.results = out.results,
                                    !.count = out.count]]
    /\ Len(attendance_db') <= MaxLog
    /\ UNCHANGED <<students_db, known_faces, face_names, clock, pc, upload_id,
                   response, match_in, match_out, outbox, database>>

(* return MultiRecognitionResult(...) *)
MultiReturn(r) ==
    LET f == frame[r] IN
    /\ pc[r] = "multi_scan"
    /\ f.k > Len(f.faces)
    /\ response' = Response("multi", None, 200, f.results, Len(f.faces), f.count)
    /\ pc' = [pc EXCEPT ![r] = "idle"]
    /\ frame' = [frame EXCEPT ![r] = NoFrame]
    /\ UNCHANGED <<students_db, attendance_db, last_attendance_times,
                   known_faces, face_names, clock, upload_id, match_in,
                   match_out, outbox, database>>

(* photos with one face and photos with none; faces of the two enrolled    *)
(* students and a face without embedding                                   *)
ScanUploads == Uploads(StoreDirs, {1, 3}, MaxPhotos)

ScanFaces == LogFaces \cup [ok : {FALSE}, emb : {NaNVec}]

ScanImages == Images(ScanFaces, MaxFaces)

ScanNext ==
    \/ \E id \in Ids : LoopFree(pc) /\ delete_student(id)
    \/ \E r \in Reqs, id \in Ids : LoopFree(pc) /\ StartUpload(r, id)
    \/ \E r \in Reqs :
           /\ pc[r] = "upload"
           /\ LoopFree(pc)
           /\ \E upload \in ScanUploads : ResumeUpload(r, upload)
    \/ \E r \in Reqs : LoopFree(pc) /\ StartMulti(r)
    \/ \E r \in Reqs :
           /\ pc[r] = "multi"
           /\ LoopFree(pc)
           /\ \E image \in ScanImages : BeginMulti(r, image)
    \/ \E r \in Reqs : ScanStep(r)
    \/ \E r \in Reqs : FaceEnd(r)
    \/ \E r \in Reqs : MultiReturn(r)

ScanSpec == GateInit /\ [][ScanNext]_vars

(* C23: store mutations are mutually exclusive with scans: under any       *)
(* interleaving of registration, deletion and recognition requests, no     *)
(* step taken while a scan is in progress changes the embeddings or the    *)
(* names, no other request moves during the scan, and the match a scan     *)
(* ends with is the match of a scan over the store as it is at the end.    *)
C23_ScansExcludeMutations ==
    [][\A r \in Reqs : pc[r] = "multi_scan" =>
          /\ UNCHANGED <<known_faces, face_names>>
          /\ \A q \in Reqs \ {r} : pc'[q] = pc[q]
          /\ ( /\ pc'[r] = "multi_scan"
               /\ frame'[r].k = frame[r].k + 1
               /\ frame[r].faces[frame[r].k].ok )
             => frame[r].best
                    = MultiScan(known_faces,
                                Normalize(frame[r].faces[frame[r].k].emb))]_vars

(* a scan has passed the first entry of the store while an upload for an   *)
(* enrolled student is suspended at its await                              *)
C23_Witness ==
    \E r, q \in Reqs :
        /\ pc[r] = "multi_scan"
        /\ frame[r].i = 2
        /\ Len(known_faces) = 2
        /\ pc[q] = "upload"
        /\ StoreHas(known_faces, upload_id[q])

----------------------------------------------------------------------------
(* One embedding per identity *)

(* the step in which an upload for id ends with a successful registration *)
Registers(id) ==
    \E r \in LogReqs :
        /\ pc[r] = "upload"
        /\ upload_id[r] = id
        /\ pc'[r] = "idle"
        /\ response'.status = 200

EntriesOf(kf, id) == SelectSeq(kf, LAMBDA e : e.id = id)

----------------------------------------------------------------------------
(* Registration from uploads that hold more photos than the minimum, so    *)
(* that an upload can succeed although some of its photos are skipped      *)

PhotoUploads == Uploads(StoreDirs, 1..5, MaxPhotos + 1)

PhotoNext ==
    \/ \E name \in Names : create_student(name)
    \/ \E id \in Ids : delete_student(id)
    \/ \E r \in LogReqs, id \in Ids : StartUpload(r, id)
    \/ \E r \in LogReqs :
           /\ pc[r] = "upload"
           /\ \E upload \in PhotoUploads : ResumeUpload(r, upload)

PhotoSpec == Init /\ [][PhotoNext]_vars

(* the sum of the embeddings of the photos with exactly one face and an    *)
(* embedding, taken photo by photo                                         *)
RECURSIVE SingleFaceSum(_, _)
SingleFaceSum(photos, i) ==
    IF i > Len(photos) THEN <<0, 0>>
    ELSE LET rest == SingleFaceSum(photos, i + 1) IN
         IF photos[i].faces = 1 /\ photos[i].ok
         THEN [k \in 1..2 |-> photos[i].emb[k] + rest[k]]
         ELSE rest

(* C25: only the photos with exactly one detected face and an embedding    *)
(* contribute a candidate, and the minimum of 3 is applied to their        *)
(* number: an upload is registered only with 3 contributing photos,        *)
(* however many photos it holds; with fewer the store is unchanged; a      *)
(* decodable upload for an existing student with 3 contributing photos is  *)
(* registered, and the embedding stored is the normalised mean of the      *)
(* contributing photos alone.                                              *)
C25_OnlySingleFaceCandidates ==
    [][\A r \in LogReqs : pc[r] = "upload" =>
          \A upload \in PhotoUploads :
              ResumeUpload(r, upload) =>
                  LET id == upload_id[r]
                      n == ValidCandidates(upload.photos)
                  IN /\ response'.status = 200 => n >= 3
                     /\ n < 3 => UNCHANGED <<known_faces, face_names>>
                     /\ (n >= 3 /\ id \in DOMAIN students_db) =>
                            /\ response'.status = 200
                            /\ StoreHas(known_faces', id)
                            /\ known_faces'[StoreIndex(known_faces', id)].emb
                                   = Normalize(SingleFaceSum(upload.photos, 1))]_vars

(* student 1 is enrolled and a later upload for student 2 was rejected *)
C25_Witness ==
    /\ response.op = "upload"
    /\ response.id = 2
    /\ response.status = 400
    /\ StoreHas(known_faces, 1)
    /\ ~StoreHas(known_faces, 2)
    /\ 2 \in DOMAIN students_db

----------------------------------------------------------------------------
(* The single-face endpoint on images of any number of faces *)

SingleImages == Images(BatchFaces, MaxFaces)

SingleNext ==
    \/ Tick
    \/ \E r \in LogReqs : StartRecognize(r)
    \/ \E r \in LogReqs :
           /\ pc[r] = "recognize"
           /\ \E image \in SingleImages : ResumeRecognize(r, image)

SingleSpec == GateInit /\ [][SingleNext]_vars

(* no face, several faces, or one face whose extraction fails *)
Unusable(image) == Len(image.faces) # 1 \/ ~image.faces[1].ok

(* C26: on /recognize an image with no face, with more than one face, or   *)
(* with a face whose embedding extraction fails is answered with           *)
(* recognized = false, confidence 0.0 and no identity, and the request     *)
(* writes no record and no Last-Seen entry.                                *)
C26_UnusableImageNoMatch ==
    [][\A r \in LogReqs : pc[r] = "recognize" =>
          \A image \in SingleImages :
              (image.decodable /\ Unusable(image) /\ ResumeRecognize(r, image))
              => /\ response'.op = "recognize"
                 /\ response'.status = 200
                 /\ Len(response'.results) = 1
                 /\ IsNobody(response'.results[1])
                 /\ UNCHANGED <<attendance_db, last_attendance_times>>]_vars

(* after a student was marked, an image in which faces were detected was   *)
(* answered with confidence 0.0: every usable face of the inputs scores    *)
(* above 0.0 against the store                                             *)
C26_Witness ==
    /\ response.op = "recognize"
    /\ response.status = 200
    /\ IsNobody(response.results[1])
    /\ response.results[1].bbox # None
    /\ Len(attendance_db) = 1
    /\ DOMAIN last_attendance_times # {}

----------------------------------------------------------------------------
(* Sessions: routes/auth.py /login, /logout and /refresh over the sessions *)
(* collection.  Every await of a handler is a database operation; a step   *)
(* applies the operation the handler is waiting for and runs the handler   *)
(* up to its next await.  An operation that the database does not answer   *)
(* (reachable = FALSE) raises in the driver.                               *)

(* the variables of the attendance service, which no auth route touches,   *)
(* and the mail sent, which the session routes leave alone                 *)
ServiceUnchanged ==
    UNCHANGED <<students_db, attendance_db, last_attendance_times, known_faces,
                face_names, upload_id, match_in, match_out, outbox>>

(* ACCESS_TOKEN_EXPIRE_MINUTES and REFRESH_TOKEN_EXPIRE_DAYS, in seconds *)
AccessExpire == 30 * 60

RefreshExpire == 7 * 24 * 3600

(* the clock around the issue of a token and around its expiry *)
SessionTimes == {0, 1, RefreshExpire, RefreshExpire + 1}

(* jwt.encode: "exp" is written in whole seconds and the signature is a    *)
(* function of the payload, so equal payloads give equal tokens            *)
Jwt(sub, user_id, exp) == [sub |-> sub, user_id |-> user_id, exp |-> exp]

create_access_token(email, user_id, now) == Jwt(email, user_id, now + AccessExpire)

create_refresh_token(email, user_id, now) == Jwt(email, user_id, now + RefreshExpire)

(* bcrypt: checkpw(plain, hashpw(plain, salt)) for every salt *)
get_password_hash(password) == [bcrypt |-> password]

verify_password(plain, hashed) == hashed = get_password_hash(plain)

EmailOf(u) == IF u = 1 THEN "a@x.org" ELSE "b@x.org"

Emails == {EmailOf(u) : u \in Users}

Passwords == {"secret", "wrong"}

(* the sessions collection: documents [token, user_id, expires_at]; the    *)
(* unique index on token lets insert_one raise DuplicateKeyError           *)
SessionDoc(user_id, token, expires_at) ==
    [token |-> token, user_id |-> user_id, expires_at |-> expires_at]

SessionsOf(sessions, token) == {doc \in sessions : doc.token = token}

(* Session.is_expired() *)
is_expired(session, now) == now > session.expires_at

(* the refresh tokens a client can hold *)
RefreshTokens ==
    {create_refresh_token(EmailOf(u), u, t) : u \in Users, t \in SessionTimes}

(* the users that have an account; a login under another email is refused *)
Registered == {1}

(* the accounts of the session routes: every user is active *)
SessionInit ==
    /\ students_db = <<>>
    /\ attendance_db = <<>>
    /\ last_attendance_times = <<>>
    /\ known_faces = <<>>
    /\ face_names = <<>>
    /\ clock = 0
    /\ pc = [r \in Reqs |-> "idle"]
    /\ upload_id = [r \in Reqs |-> None]
    /\ response = NoResponse
    /\ match_in = NoCall
    /\ match_out = NoMatch
    /\ database = [users |-> [u \in Registered |->
                                 [email |-> EmailOf(u),
                                  hashed_password |-> get_password_hash("secret"),
                                  is_active |-> TRUE]],
                   sessions |-> {}]
    /\ frame = [r \in Reqs |-> NoFrame]
    /\ outbox = {}

SessionTick ==
    /\ \E t \in SessionTimes : t > clock /\ clock' = t
    /\ ServiceUnchanged
    /\ UNCHANGED <<pc, response, database, frame>>

(* the TTL index on expires_at: the database drops an expired session *)
TtlMonitor ==
    /\ \E doc \in database.sessions :
           /\ doc.expires_at < clock
           /\ database' = [database EXCEPT !.sessions = @ \ {doc}]
    /\ ServiceUnchanged
    /\ UNCHANGED <<clock, pc, response, frame>>

(* what a token route answers: the tokens of a TokenResponse, if any *)
TokenResponse(op, user_id, status, tokens) ==
    Response(op, user_id, status, tokens, 0, 0)

Tokens(access, refresh) == <<[access_token |-> access, refresh_token |-> refresh]>>

(* a handler returns or raises: the request is over *)
Finish(r, resp) ==
    /\ response' = resp
    /\ pc' = [pc EXCEPT ![r] = "idle"]
    /\ frame' = [frame EXCEPT ![r] = NoFrame]

(* a handler goes on to its next await with the locals f *)
Await(r, at, f) ==
    /\ pc' = [pc EXCEPT ![r] = at]
    /\ frame' = [frame EXCEPT ![r] = f]
    /\ UNCHANGED response

(* find_one({"token": token}) on the sessions collection:                  *)
(* the documents it can return: none, or the one with this token           *)
FindSession(db, token, reachable) ==
    IF reachable THEN SessionsOf(db.sessions, token) ELSE {}

(* insert_one on the sessions collection: TRUE when the document goes in *)
SessionInserts(db, doc, reachable) ==
    reachable /\ SessionsOf(db.sessions, doc.token) = {}

(* delete_many({}) in place of delete_one({"token": token}) *)
SessionsWithoutAll(db, token, reachable) ==
    IF reachable /\ SessionsOf(db.sessions, token) # {}
    THEN {}
    ELSE db.sessions

(* delete_one({"token": token}): the collection afterwards *)
SessionsWithout(db, token, reachable) ==
    IF reachable /\ SessionsOf(db.sessions, token) # {}
    THEN db.sessions \ {CHOOSE doc \in SessionsOf(db.sessions, token) : TRUE}
    ELSE db.sessions

(* AuthService.authenticate_user: the _id of the user, or None *)
authenticate_user(db, email, password, reachable) ==
    LET found == {u \in DOMAIN db.users : db.users[u].email = email} IN
    IF ~reachable \/ found = {} THEN None
    ELSE LET u == CHOOSE x \in found : TRUE IN
         IF ~verify_password(password, db.users[u].hashed_password) THEN None
         ELSE IF ~db.users[u].is_active THEN None
         ELSE u

(* POST /login up to the await of authenticate_user *)
StartLogin(r, email, password) ==
    /\ pc[r] = "idle"
    /\ Await(r, "login_find", [email |-> email, password |-> password])
    /\ ServiceUnchanged
    /\ UNCHANGED <<clock, database>>

(* /login from the answer of authenticate_user to the await of insert_one *)
LoginFind(r, reachable) ==
    LET f == frame[r]
        u == authenticate_user(database, f.email, f.password, reachable)
    IN
    /\ pc[r] = "login_find"
    /\ IF u = None
       THEN Finish(r, TokenResponse("login", None, 401, <<>>))
       ELSE LET refresh == create_refresh_token(f.email, u, clock) IN
            Await(r, "login_insert",
                  [user_id |-> u,
                   access_token |-> create_access_token(f.email, u, clock),
                   new_refresh_token |-> refresh,
                   session |-> SessionDoc(u, refresh, clock + RefreshExpire)])
    /\ ServiceUnchanged
    /\ UNCHANGED <<clock, database>>

(* create_session: insert_one is applied, then /login or /refresh returns *)
InsertSession(r, at, op, reachable) ==
    LET f == frame[r] IN
    /\ pc[r] = at
    /\ IF SessionInserts(database, f.session, reachable)
       THEN /\ database' = [database EXCEPT !.sessions = @ \cup {f.session}]
            /\ Finish(r, TokenResponse(op, f.user_id, 200,
                                       Tokens(f.access_token, f.new_refresh_token)))
       ELSE /\ Finish(r, TokenResponse(op, f.user_id, 500, <<>>))
            /\ UNCHANGED database
    /\ ServiceUnchanged
    /\ UNCHANGED clock

(* POST /logout up to the await of delete_one *)
StartLogout(r, token) ==
    /\ pc[r] = "idle"
    /\ Await(r, "logout_delete", [refresh_token |-> token])
    /\ ServiceUnchanged
    /\ UNCHANGED <<clock, database>>

(* delete_session and the rest of /logout: deleted_count > 0 or not *)
LogoutDelete(r, reachable) ==
    LET token == frame[r].refresh_token
        after == SessionsWithout(database, token, reachable)
    IN
    /\ pc[r] = "logout_delete"
    /\ database' = [database EXCEPT !.sessions = after]
    /\ Finish(r, TokenResponse("logout", None,
                               IF after # database.sessions THEN 200 ELSE 400, <<>>))
    /\ ServiceUnchanged
    /\ UNCHANGED clock

(* POST /refresh up to the await of find_one in get_session *)
StartRefresh(r, token) ==
    /\ pc[r] = "idle"
    /\ Await(r, "refresh_get", [refresh_token |-> token])
    /\ ServiceUnchanged
    /\ UNCHANGED <<clock, database>>

(* get_session without the is_expired branch: any session found is returned *)
RefreshGetAny(r, reachable) ==
    LET f == frame[r]
        found == FindSession(database, f.refresh_token, reachable)
    IN
    /\ pc[r] = "refresh_get"
    /\ IF found = {}
       THEN Finish(r, TokenResponse("refresh", None, 401, <<>>))
       ELSE \E session \in found :
                Await(r, "refresh_user",
                      [refresh_token |-> f.refresh_token, session |-> session])
    /\ ServiceUnchanged
    /\ UNCHANGED <<clock, database>>

(* get_session after find_one: no session, an expired one, or a valid one  *)
(* with which /refresh goes on to get_user_by_id                           *)
RefreshGet(r, reachable) ==
    LET f == frame[r]
        found == FindSession(database, f.refresh_token, reachable)
    IN
    /\ pc[r] = "refresh_get"
    /\ IF found = {}
       THEN Finish(r, TokenResponse("refresh", None, 401, <<>>))
       ELSE \E session \in found :
                IF is_expired(session, clock)
                THEN Await(r, "refresh_expired",
                           [refresh_token |-> f.refresh_token, session |-> session])
                ELSE Await(r, "refresh_user",
                           [refresh_token |-> f.refresh_token, session |-> session])
    /\ ServiceUnchanged
    /\ UNCHANGED <<clock, database>>

(* get_session: delete_one of the expired session, then None and the 401 *)
RefreshExpired(r, reachable) ==
    LET f == frame[r] IN
    /\ pc[r] = "refresh_expired"
    /\ database' = [database EXCEPT !.sessions =
                        IF reachable THEN @ \ {f.session} ELSE @]
    /\ Finish(r, TokenResponse("refresh", None, 401, <<>>))
    /\ ServiceUnchanged
    /\ UNCHANGED clock

(* /refresh from the answer of get_user_by_id to the await of delete_one *)
RefreshUser(r, reachable) ==
    LET f == frame[r]
        user_id == f.session.user_id
    IN
    /\ pc[r] = "refresh_user"
    /\ IF ~UserFound(database, user_id, reachable)
       THEN Finish(r, TokenResponse("refresh", user_id, 404, <<>>))
       ELSE LET email == database.users[user_id].email IN
            Await(r, "refresh_delete",
                  [refresh_token |-> f.refresh_token,
                   user_id |-> user_id,
                   access_token |-> create_access_token(email, user_id, clock),
                   new_refresh_token |-> create_refresh_token(email, user_id, clock)])
    /\ ServiceUnchanged
    /\ UNCHANGED <<clock, database>>

(* /refresh: delete_session is applied, create_session builds the session *)
RefreshDelete(r, reachable) ==
    LET f == frame[r] IN
    /\ pc[r] = "refresh_delete"
    /\ database' = [database EXCEPT !.sessions =
                        SessionsWithout(database, f.refresh_token, reachable)]
    /\ Await(r, "refresh_insert",
             [refresh_token |-> f.refresh_token,
              user_id |-> f.user_id,
              access_token |-> f.access_token,
              new_refresh_token |-> f.new_refresh_token,
              session |-> SessionDoc(f.user_id, f.new_refresh_token,
                                     clock + RefreshExpire)])
    /\ ServiceUnchanged
    /\ UNCHANGED clock

SessionNext ==
    \/ SessionTick
    \/ TtlMonitor
    \/ \E r \in LogReqs, email \in Emails, password \in Passwords :
           StartLogin(r, email, password)
    \/ \E r \in LogReqs, reachable \in BOOLEAN : LoginFind(r, reachable)
    \/ \E r \in LogReqs, reachable \in BOOLEAN :
           InsertSession(r, "login_insert", "login", reachable)
    \/ \E r \in LogReqs, token \in RefreshTokens : StartLogout(r, token)
    \/ \E r \in LogReqs, reachable \in BOOLEAN : LogoutDelete(r, reachable)
    \/ \E r \in LogReqs, token \in RefreshTokens : StartRefresh(r, token)
    \/ \E r \in LogReqs, reachable \in BOOLEAN : RefreshGet(r, reachable)
    \/ \E r \in LogReqs, reachable \in BOOLEAN : RefreshExpired(r, reachable)
    \/ \E r \in LogReqs, reachable \in BOOLEAN : RefreshUser(r, reachable)
    \/ \E r \in LogReqs, reachable \in BOOLEAN : RefreshDelete(r, reachable)
    \/ \E r \in LogReqs, reachable \in BOOLEAN :
           InsertSession(r, "refresh_insert", "refresh", reachable)

SessionSpec == SessionInit /\ [][SessionNext]_vars

----------------------------------------------------------------------------
(* Properties of the sessions *)

(* the step in which request r, waiting at the await named at, goes on *)
Steps(r, at) == pc[r] = at /\ pc'[r] # at

(* the step in which the /refresh of request r returns its new tokens *)
RefreshSucceeds(r) ==
    /\ Steps(r, "refresh_insert")
    /\ response'.status = 200

(* C27: a successful /refresh presenting refresh token R rotates the       *)
(* session: afterwards no session with token R exists and a session        *)
(* exists for the newly issued refresh token.                              *)
C27_RefreshRotates ==
    [][\A r \in LogReqs : RefreshSucceeds(r) =>
          /\ SessionsOf(database'.sessions, frame[r].refresh_token) = {}
          /\ SessionsOf(database'.sessions, frame[r].new_refresh_token) # {}]_vars

(* the step in which the /logout of request r returns or raises *)
LogsOut(r) == Steps(r, "logout_delete")

(* C28: a successful /logout with token R removes the session of R and     *)
(* leaves the sessions of other tokens and the users as they are; while no *)
(* session for R exists, /logout with R is answered 400 and /refresh with  *)
(* R is answered 401 without tokens, and neither changes the database.     *)
C28_LogoutEndsSession ==
    [][\A r \in LogReqs :
          LET R == frame[r].refresh_token
              mine == SessionsOf(database.sessions, R)
          IN
          /\ (LogsOut(r) /\ response'.status = 200) =>
                 /\ mine # {}
                 /\ database'.sessions = database.sessions \ mine
                 /\ database'.users = database.users
          /\ (LogsOut(r) /\ mine = {}) =>
                 /\ response' = TokenResponse("logout", None, 400, <<>>)
                 /\ UNCHANGED database
          /\ (Steps(r, "refresh_get") /\ mine = {}) =>
                 /\ response' = TokenResponse("refresh", None, 401, <<>>)
                 /\ pc'[r] = "idle"
                 /\ UNCHANGED database]_vars

(* a /logout has succeeded and the session of another token is still there *)
C28_Witness ==
    /\ response = TokenResponse("logout", None, 200, <<>>)
    /\ database.sessions # {}

(* the stored session of the token has passed its expiry *)
StoredExpired(token) ==
    \E doc \in SessionsOf(database.sessions, token) : is_expired(doc, clock)

Rejected == TokenResponse("refresh", None, 401, <<>>)

(* C29: get_session never returns an expired session.  When the session    *)
(* stored for the token has passed its expiry, find_one is followed by the *)
(* delete of that session and never by the user lookup; the delete, once   *)
(* the database applies it, removes that session; and the /refresh is      *)
(* answered 401 without tokens, no session being added.                    *)
C29_ExpiredSessionRejected ==
    [][\A r \in LogReqs :
          /\ (Steps(r, "refresh_get") /\ pc'[r] = "refresh_user") =>
                 ~is_expired(frame'[r].session, clock)
          /\ (Steps(r, "refresh_get") /\ StoredExpired(frame[r].refresh_token)) =>
                 /\ pc'[r] \in {"refresh_expired", "idle"}
                 /\ pc'[r] = "idle" => response' = Rejected
                 /\ pc'[r] = "refresh_expired" =>
                        /\ frame'[r].session \in database.sessions
                        /\ frame'[r].session.token = frame[r].refresh_token
                 /\ UNCHANGED database
          /\ Steps(r, "refresh_expired") =>
                 /\ response' = Rejected
                 /\ pc'[r] = "idle"
                 /\ database'.sessions \subseteq database.sessions
                 /\ database'.users = database.users
          /\ RefreshExpired(r, TRUE) =>
                 frame[r].session \notin database'.sessions]_vars

(* get_session has found the expired session of the token and deletes it *)
C29_Witness ==
    \E r \in LogReqs :
        /\ pc[r] = "refresh_expired"
        /\ frame[r].session \in database.sessions
        /\ is_expired(frame[r].session, clock)

----------------------------------------------------------------------------
(* Accounts: routes/auth.py /register and /oauth/callback over the users   *)
(* collection, with create_user and get_or_create_oauth_user of            *)
(* services/auth.py.  send_verification_email runs smtplib inside the      *)
(* coroutine and never suspends, so the awaits of create_user are find_one *)
(* and insert_one.  The requests of this specification are served within  *)
(* one second, so the tokens of a user's sessions are equal, and by a      *)
(* deployment without SMTP credentials (email_enabled is False), which     *)
(* sends no mail.                                                          *)

(* a string that is None or empty: "if password", "elif provider" *)
NoValue == ""

(* hashed_password = None of a user created without a password *)
NoHash == [none |-> TRUE]

(* User.hash_password *)
hash_password(password) == get_password_hash(password)

(* OAuthCallbackRequest.provider, provider_id and provider_data *)
Provider == "google"

ProviderIds == {"g1"}

ProviderData == {NoValue, "profile"}

(* RegisterRequest.password *)
RegisterPasswords == {"secret"}

(* the tokens email_service.generate_token() can return *)
VerifyTokens == {"t1", "t2", "t3"}

(* send_email: the message that SMTP accepted *)
Mail(kind, to, token) == [kind |-> kind, to |-> to, token |-> token]

(* the tokens of the messages sent and of the users being created *)
DrawnTokens ==
    {m.token : m \in outbox}
        \cup {frame[r].user.email_verification_token :
                  r \in {q \in Reqs : pc[q] = "create_insert"}}

(* a random token of 32 characters: one that no message and no user being  *)
(* created carries                                                         *)
generate_token == CHOOSE token \in VerifyTokens \ DrawnTokens : TRUE

(* User(...).dict(): the fields of a user document that the routes use *)
UserDoc(email, hashed, token, verified, provider, provider_id, provider_data) ==
    [email |-> email, hashed_password |-> hashed, is_active |-> TRUE,
     email_verification_token |-> token, email_verified |-> verified,
     provider |-> provider, provider_id |-> provider_id,
     provider_data |-> provider_data]

(* the _ids of the documents find_one({"email": email}) can return *)
UsersWith(db, email) == {u \in DOMAIN db.users : db.users[u].email = email}

(* the _ids find_one({"provider": ..., "provider_id": ...}) can return *)
UsersOf(db, provider, provider_id) ==
    {u \in DOMAIN db.users : /\ db.users[u].provider = provider
                             /\ db.users[u].provider_id = provider_id}

(* AuthService.get_user_by_email: a database error is answered with None *)
get_user_by_email(db, email, reachable) ==
    IF reachable THEN UsersWith(db, email) ELSE {}

(* insert_one into users without the unique index on email *)
UserInsertsAny(db, doc, reachable) == reachable

(* insert_one into users: TRUE when the document goes in; the unique index *)
(* on email raises DuplicateKeyError otherwise                             *)
UserInserts(db, doc, reachable) ==
    reachable /\ UsersWith(db, doc.email) = {}

(* the locals of create_user and get_or_create_oauth_user *)
AccountFrame(op, email, password, provider_id, provider_data, user_id, user) ==
    [op |-> op, email |-> email, password |-> password,
     provider |-> IF op = "oauth" THEN Provider ELSE NoValue,
     provider_id |-> provider_id, provider_data |-> provider_data,
     user_id |-> user_id, user |-> user]

(* the locals of a frame f with the user found or built *)
WithUser(f, user_id, user) ==
    AccountFrame(f.op, f.email, f.password, f.provider_id, f.provider_data,
                 user_id, user)

(* oauth_callback after get_or_create_oauth_user: the tokens, and the      *)
(* session that create_session inserts                                     *)
OAuthSession(user_id, email, now) ==
    LET refresh == create_refresh_token(email, user_id, now) IN
    [user_id |-> user_id,
     access_token |-> create_access_token(email, user_id, now),
     new_refresh_token |-> refresh,
     session |-> SessionDoc(user_id, refresh, now + RefreshExpire)]

(* an exception leaves the handler: /register answers a ValueError with    *)
(* 400 and anything else with 500, /oauth/callback answers all with 500    *)
Raise(r, op, error) ==
    Finish(r, TokenResponse(op, None,
                            IF op = "register" /\ error = "ValueError"
                            THEN 400 ELSE 500, <<>>))

AccountInit ==
    /\ students_db = <<>>
    /\ attendance_db = <<>>
    /\ last_attendance_times = <<>>
    /\ known_faces = <<>>
    /\ face_names = <<>>
    /\ clock = 0
    /\ pc = [r \in Reqs |-> "idle"]
    /\ upload_id = [r \in Reqs |-> None]
    /\ response = NoResponse
    /\ match_in = NoCall
    /\ match_out = NoMatch
    /\ database = [users |-> <<>>, sessions |-> {}]
    /\ frame = [r \in Reqs |-> NoFrame]
    /\ outbox = {}

(* POST /register up to the await of find_one in get_user_by_email *)
StartRegister(r, email, password) ==
    /\ pc[r] = "idle"
    /\ Await(r, "create_find",
             AccountFrame("register", email, password, NoValue, NoValue,
                          None, NoHash))
    /\ ServiceUnchanged
    /\ UNCHANGED <<clock, database>>

(* create_user from the answer of get_user_by_email to the await of        *)
(* insert_one: the check of the email, the User and its verification token *)
CreateFind(r, reachable, sent) ==
    LET f == frame[r]
        existing_user == get_user_by_email(database, f.email, reachable)
        verifies == f.password # NoValue /\ f.provider = NoValue
    IN
    /\ pc[r] = "create_find"
    /\ IF existing_user # {}
       THEN /\ Raise(r, f.op, "ValueError")
            /\ UNCHANGED outbox
       ELSE /\ verifies => VerifyTokens \ DrawnTokens # {}
            /\ LET verification_token ==
                       IF verifies THEN generate_token ELSE NoValue
               IN
               /\ Await(r, "create_insert",
                        WithUser(f, None,
                            UserDoc(f.email,
                                    IF f.password # NoValue
                                    THEN hash_password(f.password) ELSE NoHash,
                                    verification_token,
                                    f.provider # NoValue,
                                    f.provider, f.provider_id, f.provider_data)))
               /\ outbox' = IF verifies /\ sent
                            THEN outbox \cup {Mail("verification", f.email,
                                                   verification_token)}
                            ELSE outbox
    /\ UNCHANGED <<students_db, attendance_db, last_attendance_times,
                   known_faces, face_names, upload_id, match_in, match_out,
                   clock, database>>

(* create_user: insert_one is applied; /register returns the user and      *)
(* /oauth/callback goes on to create_session                               *)
CreateInsert(r, reachable) ==
    LET f == frame[r]
        inserted_id == Len(database.users) + 1
    IN
    /\ pc[r] = "create_insert"
    /\ IF UserInserts(database, f.user, reachable)
       THEN /\ database' = [database EXCEPT !.users = Append(@, f.user)]
            /\ IF f.op = "register"
               THEN Finish(r, TokenResponse("register", inserted_id, 200, <<>>))
               ELSE Await(r, "oauth_session",
                          OAuthSession(inserted_id, f.email, clock))
       ELSE /\ Raise(r, f.op, IF reachable THEN "ValueError" ELSE "Exception")
            /\ UNCHANGED database
    /\ ServiceUnchanged
    /\ UNCHANGED clock

(* POST /oauth/callback up to the await of find_one by provider *)
StartOAuth(r, provider_id, email, provider_data) ==
    /\ pc[r] = "idle"
    /\ Await(r, "oauth_find",
             AccountFrame("oauth", email, NoValue, provider_id, provider_data,
                          None, NoHash))
    /\ ServiceUnchanged
    /\ UNCHANGED <<clock, database>>

(* get_or_create_oauth_user after find_one by provider and provider_id *)
OAuthFind(r, reachable) ==
    LET f == frame[r]
        found == UsersOf(database, f.provider, f.provider_id)
    IN
    /\ pc[r] = "oauth_find"
    /\ IF ~reachable
       THEN Raise(r, f.op, "Exception")
       ELSE IF found # {}
       THEN \E u \in found :
                IF f.provider_data # NoValue
                THEN Await(r, "oauth_update", WithUser(f, u, database.users[u]))
                ELSE Await(r, "oauth_session",
                           OAuthSession(u, database.users[u].email, clock))
       ELSE Await(r, "oauth_email", f)
    /\ ServiceUnchanged
    /\ UNCHANGED <<clock, database>>

(* update_one of provider_data on the user found by provider *)
OAuthUpdate(r, reachable) ==
    LET f == frame[r] IN
    /\ pc[r] = "oauth_update"
    /\ IF ~reachable
       THEN /\ Raise(r, f.op, "Exception")
            /\ UNCHANGED database
       ELSE /\ database' = [database EXCEPT
                               !.users[f.user_id].provider_data = f.provider_data]
            /\ Await(r, "oauth_session",
                     OAuthSession(f.user_id, f.user.email, clock))
    /\ ServiceUnchanged
    /\ UNCHANGED clock

(* get_or_create_oauth_user after get_user_by_email: link the provider to  *)
(* the user of this email, or create_user                                  *)
OAuthEmail(r, reachable) ==
    LET f == frame[r]
        existing_email_user == get_user_by_email(database, f.email, reachable)
    IN
    /\ pc[r] = "oauth_email"
    /\ IF existing_email_user # {}
       THEN \E u \in existing_email_user :
                Await(r, "oauth_link", WithUser(f, u, database.users[u]))
       ELSE Await(r, "create_find", f)
    /\ ServiceUnchanged
    /\ UNCHANGED <<clock, database>>

(* update_one that links the provider to the existing user *)
OAuthLink(r, reachable) ==
    LET f == frame[r] IN
    /\ pc[r] = "oauth_link"
    /\ IF ~reachable
       THEN /\ Raise(r, f.op, "Exception")
            /\ UNCHANGED database
       ELSE /\ database' = [database EXCEPT
                               !.users[f.user_id].provider = f.provider,
                               !.users[f.user_id].provider_id = f.provider_id,
                               !.users[f.user_id].provider_data = f.provider_data]
            /\ Await(r, "oauth_session",
                     OAuthSession(f.user_id, f.user.email, clock))
    /\ ServiceUnchanged
    /\ UNCHANGED clock

AccountNext ==
    \/ \E r \in Reqs, email \in Emails, password \in RegisterPasswords :
           StartRegister(r, email, password)
    \/ \E r \in Reqs, reachable \in BOOLEAN : CreateFind(r, reachable, FALSE)
    \/ \E r \in Reqs, reachable \in BOOLEAN : CreateInsert(r, reachable)
    \/ \E r \in Reqs, provider_id \in ProviderIds, email \in Emails,
          provider_data \in ProviderData :
           StartOAuth(r, provider_id, email, provider_data)
    \/ \E r \in Reqs, reachable \in BOOLEAN : OAuthFind(r, reachable)
    \/ \E r \in Reqs, reachable \in BOOLEAN : OAuthUpdate(r, reachable)
    \/ \E r \in Reqs, reachable \in BOOLEAN : OAuthEmail(r, reachable)
    \/ \E r \in Reqs, reachable \in BOOLEAN : OAuthLink(r, reachable)
    \/ \E r \in Reqs, reachable \in BOOLEAN :
           InsertSession(r, "oauth_session", "oauth", reachable)

AccountSpec == AccountInit /\ [][AccountNext]_vars

----------------------------------------------------------------------------
(* Properties of the accounts *)

UniqueEmails ==
    \A u, v \in DOMAIN database.users :
        database.users[u].email = database.users[v].email => u = v

(* the email of the request r is the email of a stored user *)
Taken(r) == UsersWith(database, frame[r].email) # {}

(* what /register and /oauth/callback answer to "Email already registered" *)
AlreadyRegistered(op) ==
    TokenResponse(op, None, IF op = "register" THEN 400 ELSE 500, <<>>)

(* the documents of users[u] are the same but for the provider fields *)
SameAccount(old, new) ==
    /\ new.email = old.email
    /\ new.hashed_password = old.hashed_password
    /\ new.email_verified = old.email_verified

(* C30: no two user records share an email.  A create_user for an email    *)
(* that is already registered inserts nothing and never succeeds; when the *)
(* database answers its lookup or its insert, it fails with "Email already *)
(* registered", which /register answers with 400, also when the email was  *)
(* registered by a concurrent request after the lookup.  An OAuth callback *)
(* whose email lookup finds a user links the provider to that user and     *)
(* adds no user.                                                           *)
C30_EmailsAreUnique ==
    /\ []UniqueEmails
    /\ [][\A r \in Reqs :
             /\ (pc[r] \in {"create_find", "create_insert"} /\ Taken(r)) =>
                   /\ Steps(r, pc[r]) =>
                          /\ database'.users = database.users
                          /\ pc'[r] \in {"idle", "create_insert"}
                          /\ pc'[r] = "idle" => response'.status \in {400, 500}
                   /\ pc'[r] = "idle" /\ response'.status = 400 =>
                          response' = AlreadyRegistered("register")
                   /\ CreateFind(r, TRUE, FALSE) =>
                          response' = AlreadyRegistered(frame[r].op)
                   /\ CreateInsert(r, TRUE) => response' = AlreadyRegistered(frame[r].op)
             /\ (pc[r] = "oauth_email" /\ Taken(r) /\ OAuthEmail(r, TRUE)) =>
                   /\ pc'[r] = "oauth_link"
                   /\ frame'[r].user_id \in UsersWith(database, frame[r].email)
                   /\ database'.users = database.users
             /\ (pc[r] = "oauth_link" /\ OAuthLink(r, TRUE)) =>
                   LET u == frame[r].user_id IN
                   /\ DOMAIN database'.users = DOMAIN database.users
                   /\ \A v \in DOMAIN database.users :
                          SameAccount(database.users[v], database'.users[v])
                   /\ \A v \in DOMAIN database.users \ {u} :
                          database'.users[v] = database.users[v]
                   /\ database'.users[u].provider = frame[r].provider
                   /\ database'.users[u].provider_id = frame[r].provider_id]_vars

(* a registration was refused for an email that is registered, and a user  *)
(* who registered with a password has been linked to the OAuth provider    *)
C30_Witness ==
    /\ response = AlreadyRegistered("register")
    /\ \E u \in DOMAIN database.users :
           /\ database.users[u].hashed_password # NoHash
           /\ database.users[u].provider = Provider
    /\ Len(database.users) = 2

----------------------------------------------------------------------------
(* Properties of the student records *)

(* C33: create_student always creates a new record: the id it returns is   *)
(* not the id of a student in students_db, so no record is overwritten and *)
(* the number of students grows by one.                                    *)
C33_CreateIsFresh ==
    [][\A name \in Names : create_student(name) =>
          /\ response'.id \notin DOMAIN students_db
          /\ Cardinality(DOMAIN students_db') = Cardinality(DOMAIN students_db) + 1]_vars

(* C34: every identity that has an embedding in known_faces is a student   *)
(* present in students_db, also when a deletion of the student falls       *)
(* between the existence check of a photo upload and its registration.     *)
C34_FacesAreStudents ==
    \A i \in DOMAIN known_faces : known_faces[i].id \in DOMAIN students_db

(* an upload found its student deleted after its file reads, while another *)
(* student holds an embedding                                              *)
C34_Witness ==
    /\ response.op = "upload"
    /\ response.status = 500
    /\ response.id \notin DOMAIN students_db
    /\ known_faces # <<>>

----------------------------------------------------------------------------
(* Clearing the log and the gate *)

(* the step is a clear request *)
Clears == clear_all_attendance \/ \E id \in Ids : clear_student_attendance(id)

(* the log holds no record of id although the gate has a young entry for it *)
ClearedYoung(id) ==
    /\ RecordsOf(attendance_db, id) = <<>>
    /\ ~Expired(id)

(* C35: a clear request removes records of the log only and leaves the     *)
(* Last-Seen table as it is; a recognition of an identity less than 300 s  *)
(* after its last committed record is therefore suppressed although the    *)
(* log holds no record of it: nothing is written and its entry stays.      *)
C35_ClearKeepsLastSeen ==
    [][/\ Clears =>
             /\ last_attendance_times' = last_attendance_times
             /\ Len(attendance_db') <= Len(attendance_db)
             /\ UNCHANGED <<students_db, known_faces, face_names>>
       /\ \A r \in LogReqs : Resumes(r) =>
             \A id \in RecognizedIds(response') :
                 ClearedYoung(id) =>
                     /\ RecordsOf(attendance_db', id) = <<>>
                     /\ last_attendance_times'[id] = last_attendance_times[id]]_vars

(* student 1 was recognized and suppressed while the log, cleared since    *)
(* the commit, holds no record at all                                      *)
C35_Witness ==
    /\ response.status = 200
    /\ RecognizedIds(response) = {1}
    /\ attendance_db = <<>>
    /\ 1 \in DOMAIN last_attendance_times
    /\ clock - last_attendance_times[1] < Cooldown
    /\ clock > last_attendance_times[1]

----------------------------------------------------------------------------
(* Concurrent refreshes: one user has logged in at second 0, and two       *)
(* /refresh requests run interleaved at their awaits while the clock       *)
(* advances; the database answers every operation.                         *)

RaceTimes == {0, 1, 2}

(* the refresh tokens of user 1 *)
RaceTokens == {create_refresh_token(EmailOf(1), 1, t) : t \in RaceTimes}

(* the state after POST /login of user 1 at second 0 *)
RaceInit ==
    /\ students_db = <<>>
    /\ attendance_db = <<>>
    /\ last_attendance_times = <<>>
    /\ known_faces = <<>>
    /\ face_names = <<>>
    /\ clock = 0
    /\ pc = [r \in Reqs |-> "idle"]
    /\ upload_id = [r \in Reqs |-> None]
    /\ response = NoResponse
    /\ match_in = NoCall
    /\ match_out = NoMatch
    /\ database = [users |-> [u \in Registered |->
                                 [email |-> EmailOf(u),
                                  hashed_password |-> get_password_hash("secret"),
                                  is_active |-> TRUE]],
                   sessions |-> {SessionDoc(1, create_refresh_token(EmailOf(1), 1, 0),
                                            RefreshExpire)}]
    /\ frame = [r \in Reqs |-> NoFrame]
    /\ outbox = {}

RaceTick ==
    /\ \E t \in RaceTimes : t > clock /\ clock' = t
    /\ ServiceUnchanged
    /\ UNCHANGED <<pc, response, database, frame>>

RaceNext ==
    \/ RaceTick
    \/ \E r \in Reqs, token \in RaceTokens : StartRefresh(r, token)
    \/ \E r \in Reqs : RefreshGet(r, TRUE)
    \/ \E r \in Reqs : RefreshUser(r, TRUE)
    \/ \E r \in Reqs : RefreshDelete(r, TRUE)
    \/ \E r \in Reqs : InsertSession(r, "refresh_insert", "refresh", TRUE)

RaceSpec == RaceInit /\ [][RaceNext]_vars

(* C36: a refresh token is redeemed at most once: of two /refresh requests *)
(* that present the same token and run concurrently at most one returns    *)
(* new tokens and at most one new session results, so the one session of   *)
(* the login is never followed by two.                                     *)
C36_RedeemedOnce == Cardinality(database.sessions) <= 1

----------------------------------------------------------------------------
(* Registration mail: two /register requests run interleaved at their      *)
(* awaits, served by a deployment with SMTP credentials; SMTP accepts a    *)
(* message or fails.                                                       *)

MailNext ==
    \/ \E r \in Reqs, email \in Emails, password \in RegisterPasswords :
           StartRegister(r, email, password)
    \/ \E r \in Reqs, reachable \in BOOLEAN, sent \in BOOLEAN :
           CreateFind(r, reachable, sent)
    \/ \E r \in Reqs, reachable \in BOOLEAN : CreateInsert(r, reachable)

MailSpec == AccountInit /\ [][MailNext]_vars

(* the verification message of the create_user that request r runs *)
MailOf(r) ==
    Mail("verification", frame[r].email, frame[r].user.email_verification_token)

(* C37: a verification email is sent only for a registration that ends     *)
(* with the user stored: when create_user fails at its insert, no          *)
(* verification email has been sent for that attempt.                      *)
C37_MailOnlyIfStored ==
    [][\A r \in Reqs :
          (pc[r] = "create_insert" /\ pc'[r] = "idle" /\ response'.status # 200)
              => MailOf(r) \notin outbox']_vars

----------------------------------------------------------------------------
(* Account recovery: routes/auth.py /forgot-password, /reset-password and  *)
(* /resend-verification, one request at a time, while the clock passes the *)
(* expiry of a reset token.  SMTP accepts every message, so every token    *)
(* drawn for a stored user is in the outbox and is not drawn again.        *)

(* timedelta(hours=1) *)
ResetExpire == 3600

RecoveryTimes == {0, 1, ResetExpire, ResetExpire + 1}

(* a@x.org and b@x.org have accounts, c@x.org has none *)
RecoveryEmails == Emails \cup {"c@x.org"}

NewPasswords == {"changed"}

(* a user document with the fields of the recovery routes *)
RecoveryDoc(email, password, verified, verification_token) ==
    [email |-> email, hashed_password |-> get_password_hash(password),
     is_active |-> TRUE, email_verified |-> verified,
     email_verification_token |-> verification_token,
     password_reset_token |-> NoValue, password_reset_expires |-> None]

(* the body of a response that carries a message or a detail *)
MessageResponse(op, status, message) ==
    Response(op, None, status, <<message>>, 0, 0)

(* user 1 has registered and verified the email, user 2 has registered and *)
(* holds the token of the verification mail                                *)
RecoveryInit ==
    /\ students_db = <<>>
    /\ attendance_db = <<>>
    /\ last_attendance_times = <<>>
    /\ known_faces = <<>>
    /\ face_names = <<>>
    /\ clock = 0
    /\ pc = [r \in Reqs |-> "idle"]
    /\ upload_id = [r \in Reqs |-> None]
    /\ response = NoResponse
    /\ match_in = NoCall
    /\ match_out = NoMatch
    /\ database = [users |-> << RecoveryDoc(EmailOf(1), "secret", TRUE, NoValue),
                                RecoveryDoc(EmailOf(2), "secret", FALSE, "t1") >>,
                   sessions |-> {}]
    /\ frame = [r \in Reqs |-> NoFrame]
    /\ outbox = {Mail("verification", EmailOf(2), "t1")}

RecoveryTick ==
    /\ \E t \in RecoveryTimes : t > clock /\ clock' = t
    /\ ServiceUnchanged
    /\ UNCHANGED <<pc, response, database, frame>>

(* POST /forgot-password up to the await of find_one in get_user_by_email *)
StartForgot(r, email) ==
    /\ pc[r] = "idle"
    /\ Await(r, "forgot_find", [email |-> email])
    /\ ServiceUnchanged
    /\ UNCHANGED <<clock, database>>

(* request_password_reset after get_user_by_email: True for an unknown     *)
(* email, else the reset token and its expiry, up to the await of update_one *)
ForgotFind(r, reachable) ==
    LET f == frame[r]
        user == get_user_by_email(database, f.email, reachable)
    IN
    /\ pc[r] = "forgot_find"
    /\ IF user = {}
       THEN Finish(r, MessageResponse("forgot_password", 200,
                                      "Password reset email sent"))
       ELSE /\ VerifyTokens \ DrawnTokens # {}
            /\ \E u \in user :
                   Await(r, "forgot_update",
                         [email |-> f.email, user_id |-> u,
                          reset_token |-> generate_token,
                          expires_at |-> clock + ResetExpire])
    /\ ServiceUnchanged
    /\ UNCHANGED <<clock, database>>

(* request_password_reset: update_one is applied and the mail is sent; an  *)
(* exception is answered False, which forgot_password turns into a 500     *)
ForgotUpdate(r, reachable) ==
    LET f == frame[r] IN
    /\ pc[r] = "forgot_update"
    /\ IF reachable
       THEN /\ database' = [database EXCEPT
                               !.users[f.user_id].password_reset_token = f.reset_token,
                               !.users[f.user_id].password_reset_expires = f.expires_at]
            /\ outbox' = outbox \cup {Mail("reset", f.email, f.reset_token)}
            /\ Finish(r, MessageResponse("forgot_password", 200,
                                         "Password reset email sent"))
       ELSE /\ Finish(r, MessageResponse("forgot_password", 500,
                                         "Password reset request failed"))
            /\ UNCHANGED <<database, outbox>>
    /\ UNCHANGED <<students_db, attendance_db, last_attendance_times,
                   known_faces, face_names, upload_id, match_in, match_out,
                   clock>>

(* POST /reset-password up to the await of find_one; the query carries     *)
(* datetime.utcnow() of this moment                                        *)
StartReset(r, token, new_password) ==
    /\ pc[r] = "idle"
    /\ Await(r, "reset_find",
             [token |-> token, new_password |-> new_password, now |-> clock])
    /\ ServiceUnchanged
    /\ UNCHANGED <<clock, database>>

(* mutant of ResetUsers: the expiry is not part of the query *)
ResetUsersAnyTime(db, token, now) ==
    {u \in DOMAIN db.users : db.users[u].password_reset_token = token}

(* the _ids find_one({"password_reset_token": token,                       *)
(* "password_reset_expires": {"$gt": now}}) can return                     *)
ResetUsers(db, token, now) ==
    {u \in DOMAIN db.users : /\ db.users[u].password_reset_token = token
                             /\ db.users[u].password_reset_expires > now}

(* reset_password after find_one: False, or the hash of the new password   *)
(* up to the await of update_one                                           *)
ResetFind(r, reachable) ==
    LET f == frame[r]
        user_doc == IF reachable THEN ResetUsers(database, f.token, f.now) ELSE {}
    IN
    /\ pc[r] = "reset_find"
    /\ IF user_doc = {}
       THEN Finish(r, MessageResponse("reset_password", 400,
                                      "Invalid or expired reset token"))
       ELSE \E u \in user_doc :
                Await(r, "reset_update",
                      [token |-> f.token, new_password |-> f.new_password,
                       now |-> f.now, user_id |-> u,
                       hashed_password |-> get_password_hash(f.new_password)])
    /\ ServiceUnchanged
    /\ UNCHANGED <<clock, database>>

(* reset_password: update_one sets the password and clears token and expiry *)
ResetUpdate(r, reachable) ==
    LET f == frame[r] IN
    /\ pc[r] = "reset_update"
    /\ IF reachable
       THEN /\ database' = [database EXCEPT
                               !.users[f.user_id].hashed_password = f.hashed_password,
                               !.users[f.user_id].password_reset_token = NoValue,
                               !.users[f.user_id].password_reset_expires = None]
            /\ Finish(r, MessageResponse("reset_password", 200,
                                         "Password reset successfully"))
       ELSE /\ Finish(r, MessageResponse("reset_password", 400,
                                         "Invalid or expired reset token"))
            /\ UNCHANGED database
    /\ ServiceUnchanged
    /\ UNCHANGED clock

(* POST /resend-verification up to the await of find_one *)
StartResend(r, email) ==
    /\ pc[r] = "idle"
    /\ Await(r, "resend_find", [email |-> email])
    /\ ServiceUnchanged
    /\ UNCHANGED <<clock, database>>

(* resend_verification after get_user_by_email *)
ResendFind(r, reachable) ==
    LET f == frame[r]
        user == get_user_by_email(database, f.email, reachable)
    IN
    /\ pc[r] = "resend_find"
    /\ IF user = {}
       THEN Finish(r, MessageResponse("resend_verification", 200,
                                      "Verification email sent"))
       ELSE \E u \in user :
                IF database.users[u].email_verified
                THEN Finish(r, MessageResponse("resend_verification", 200,
                                               "Email already verified"))
                ELSE /\ VerifyTokens \ DrawnTokens # {}
                     /\ Await(r, "resend_update",
                              [email |-> f.email, user_id |-> u,
                               verification_token |-> generate_token])
    /\ ServiceUnchanged
    /\ UNCHANGED <<clock, database>>

(* resend_verification: update_one is applied and the mail is sent *)
ResendUpdate(r, reachable) ==
    LET f == frame[r] IN
    /\ pc[r] = "resend_update"
    /\ IF reachable
       THEN /\ database' = [database EXCEPT
                               !.users[f.user_id].email_verification_token =
                                   f.verification_token]
            /\ outbox' = outbox \cup {Mail("verification", f.email,
                                           f.verification_token)}
            /\ Finish(r, MessageResponse("resend_verification", 200,
                                         "Verification email sent"))
       ELSE /\ Finish(r, MessageResponse("resend_verification", 500,
                                         "Failed to resend verification email"))
            /\ UNCHANGED <<database, outbox>>
    /\ UNCHANGED <<students_db, attendance_db, last_attendance_times,
                   known_faces, face_names, upload_id, match_in, match_out,
                   clock>>

RecoveryNext ==
    \/ RecoveryTick
    \/ \E r \in LogReqs, email \in RecoveryEmails : StartForgot(r, email)
    \/ \E r \in LogReqs, reachable \in BOOLEAN : ForgotFind(r, reachable)
    \/ \E r \in LogReqs, reachable \in BOOLEAN : ForgotUpdate(r, reachable)
    \/ \E r \in LogReqs, token \in VerifyTokens, new_password \in NewPasswords :
           StartReset(r, token, new_password)
    \/ \E r \in LogReqs, reachable \in BOOLEAN : ResetFind(r, reachable)
    \/ \E r \in LogReqs, reachable \in BOOLEAN : ResetUpdate(r, reachable)
    \/ \E r \in LogReqs, email \in RecoveryEmails : StartResend(r, email)
    \/ \E r \in LogReqs, reachable \in BOOLEAN : ResendFind(r, reachable)
    \/ \E r \in LogReqs, reachable \in BOOLEAN : ResendUpdate(r, reachable)

RecoverySpec == RecoveryInit /\ [][RecoveryNext]_vars

----------------------------------------------------------------------------
(* Properties of the account recovery *)

(* the password of user u changes in this step *)
PasswordChanges(u) ==
    database'.users[u].hashed_password # database.users[u].hashed_password

(* the step in which request r, waiting at the await named at, is answered *)
Answers(r, at) == pc[r] = at /\ pc'[r] = "idle"

InvalidToken ==
    MessageResponse("reset_password", 400, "Invalid or expired reset token")

(* C31: reset_password changes a password only when the presented token    *)
(* equals the reset token stored for the user and the time of the request  *)
(* is before its expiry, which request_password_reset sets one hour after  *)
(* the request; the change stores the hash of the new password and clears  *)
(* token and expiry, so that the token finds no user again; a reset that   *)
(* fails leaves every password as it is.                                   *)
C31_ResetNeedsValidToken ==
    [][\A r \in LogReqs :
          /\ \A u \in DOMAIN database.users :
                 PasswordChanges(u) =>
                     /\ Answers(r, "reset_update")
                     /\ frame[r].user_id = u
                     /\ response' = MessageResponse("reset_password", 200,
                                                    "Password reset successfully")
          /\ (Steps(r, "reset_find") /\ pc'[r] = "reset_update") =>
                 LET user == database.users[frame'[r].user_id] IN
                 /\ user.password_reset_token = frame[r].token
                 /\ frame[r].now < user.password_reset_expires
                 /\ UNCHANGED database
          /\ (Answers(r, "reset_update") /\ response'.status = 200) =>
                 LET user == database'.users[frame[r].user_id] IN
                 /\ user.hashed_password = get_password_hash(frame[r].new_password)
                 /\ user.password_reset_token = NoValue
                 /\ user.password_reset_expires = None
                 /\ ResetUsers(database', frame[r].token, clock)
                        \subseteq ResetUsers(database, frame[r].token, clock)
                                      \ {frame[r].user_id}
          /\ ((Answers(r, "reset_find") \/ Answers(r, "reset_update"))
                  /\ response'.status # 200) =>
                 /\ response' = InvalidToken
                 /\ UNCHANGED database
          /\ Steps(r, "forgot_find") =>
                 /\ UNCHANGED database
                 /\ pc'[r] = "forgot_update" =>
                        frame'[r].expires_at = clock + ResetExpire
          /\ Steps(r, "forgot_update") =>
                 \A u \in DOMAIN database.users :
                     LET old == database.users[u]
                         new == database'.users[u]
                     IN
                     \/ new = old
                     \/ /\ u = frame[r].user_id
                        /\ new.password_reset_token = frame[r].reset_token
                        /\ new.password_reset_expires = frame[r].expires_at]_vars

(* the password of user 1 was reset with the token of the mail; the token  *)
(* is cleared and the mail is still in the outbox                          *)
C31_Witness ==
    /\ response = MessageResponse("reset_password", 200,
                                  "Password reset successfully")
    /\ database.users[1].hashed_password = get_password_hash("changed")
    /\ database.users[1].password_reset_token = NoValue
    /\ \E m \in outbox : m.kind = "reset" /\ m.to = EmailOf(1)

(* what the two routes answer for an email that no user has *)
ForgotSent == MessageResponse("forgot_password", 200, "Password reset email sent")

ResendSent ==
    MessageResponse("resend_verification", 200, "Verification email sent")

(* C32: the responses of /forgot-password and /resend-verification do not  *)
(* reveal whether the email belongs to a user, nor the verification state  *)
(* of that user: status and message are those given for an unknown email.  *)
C32_NoDisclosure ==
    [][\A r \in LogReqs :
          /\ (Answers(r, "forgot_find") \/ Answers(r, "forgot_update")) =>
                 response' = ForgotSent
          /\ (Answers(r, "resend_find") \/ Answers(r, "resend_update")) =>
                 response' = ResendSent]_vars

====
